---- MODULE Spec2Model ----
(***************************************************************************)
(* Emissions-estimation methodology of the Truro GHG dashboard:            *)
(* data_loader.py (vehicle loader, building estimator, heat-pump           *)
(* displacement tracker) and the vehicle part of the Home rollup.          *)
(*                                                                         *)
(* Python floats are modelled as exact rationals over arbitrary-size       *)
(* naturals (limb sequences), plus NaN.  Binary rounding of IEEE doubles   *)
(* is not modelled: every equality below is an equality of real numbers.   *)
(***************************************************************************)
EXTENDS Integers, Sequences, FiniteSets, TLC

(***************************************************************************)
(* Arithmetic: naturals of any size as little-endian limb sequences        *)
(* (no trailing zero limb, zero is <<>>).                                  *)
(***************************************************************************)
LimbBase == 100 * 100

RECURSIVE MagNorm(_)
MagNorm(a) ==
    IF a = <<>> THEN <<>>
    ELSE IF a[Len(a)] = 0 THEN MagNorm(SubSeq(a, 1, Len(a) - 1))
    ELSE a

RECURSIVE MagFromNat(_)
MagFromNat(n) ==
    IF n = 0 THEN <<>>
    ELSE <<n % LimbBase>> \o MagFromNat(n \div LimbBase)

RECURSIVE MagAddC(_, _, _)
MagAddC(a, b, c) ==
    IF a = <<>> /\ b = <<>>
    THEN IF c = 0 THEN <<>> ELSE <<c>>
    ELSE LET x == IF a = <<>> THEN 0 ELSE Head(a)
             y == IF b = <<>> THEN 0 ELSE Head(b)
             s == x + y + c
         IN  <<s % LimbBase>> \o
             MagAddC(IF a = <<>> THEN <<>> ELSE Tail(a),
                     IF b = <<>> THEN <<>> ELSE Tail(b),
                     s \div LimbBase)

MagAdd(a, b) == MagAddC(a, b, 0)

RECURSIVE MagCmpAt(_, _, _)
MagCmpAt(a, b, i) ==
    IF i = 0 THEN 0
    ELSE IF a[i] < b[i] THEN -1
    ELSE IF a[i] > b[i] THEN 1
    ELSE MagCmpAt(a, b, i - 1)

\* -1, 0, 1 as a < b, a = b, a > b
MagCmp(a, b) ==
    IF Len(a) < Len(b) THEN -1
    ELSE IF Len(a) > Len(b) THEN 1
    ELSE MagCmpAt(a, b, Len(a))

RECURSIVE MagSubB(_, _, _)
MagSubB(a, b, w) ==
    IF a = <<>> THEN <<>>
    ELSE LET y == IF b = <<>> THEN 0 ELSE Head(b)
             d == Head(a) - y - w
         IN  <<IF d < 0 THEN d + LimbBase ELSE d>> \o
             MagSubB(Tail(a), IF b = <<>> THEN <<>> ELSE Tail(b),
                     IF d < 0 THEN 1 ELSE 0)

\* a - b for a >= b
MagSub(a, b) == MagNorm(MagSubB(a, b, 0))

RECURSIVE MagMulLimb(_, _, _)
MagMulLimb(a, k, c) ==
    IF a = <<>>
    THEN IF c = 0 THEN <<>> ELSE <<c>>
    ELSE LET p == Head(a) * k + c
         IN  <<p % LimbBase>> \o MagMulLimb(Tail(a), k, p \div LimbBase)

RECURSIVE MagMul(_, _)
MagMul(a, b) ==
    IF a = <<>> \/ b = <<>> THEN <<>>
    ELSE MagNorm(MagAdd(MagMulLimb(a, Head(b), 0),
                        <<0>> \o MagMul(a, Tail(b))))

(***************************************************************************)
(* A float: NaN, or the rational (-1)^neg * num / den with den > 0.        *)
(***************************************************************************)
NaN == [nan |-> TRUE, neg |-> FALSE, num |-> <<>>, den |-> <<1>>]

\* a / 10 for a limb sequence a that ends in a decimal 0
MagDiv10(a) ==
    MagNorm([i \in 1..Len(a) |->
                a[i] \div 10
                + (IF i < Len(a) THEN (a[i + 1] % 10) * (LimbBase \div 10) ELSE 0)])

\* the same number with the decimal zeros that end both num and den removed
RECURSIVE QMake(_, _, _)
QMake(neg, num, den) ==
    IF num # <<>> /\ Head(num) % 10 = 0 /\ Head(den) % 10 = 0
    THEN QMake(neg, MagDiv10(num), MagDiv10(den))
    ELSE [nan |-> FALSE, neg |-> (neg /\ num # <<>>), num |-> num, den |-> den]

QInt(i) == QMake(i < 0, MagFromNat(IF i < 0 THEN -i ELSE i), <<1>>)

RECURSIVE Pow10(_)
Pow10(e) == IF e = 0 THEN <<1>> ELSE MagMulLimb(Pow10(e - 1), 10, 0)

\* the decimal literal m * 10^-e, e.g. QDec(39, 2) is 0.39
QDec(m, e) == QMake(m < 0, MagFromNat(IF m < 0 THEN -m ELSE m), Pow10(e))

QNeg(a) == IF a.nan THEN NaN ELSE QMake(~a.neg, a.num, a.den)

QMul(a, b) ==
    IF a.nan \/ b.nan THEN NaN
    ELSE QMake(a.neg # b.neg, MagMul(a.num, b.num), MagMul(a.den, b.den))

QAdd(a, b) ==
    IF a.nan \/ b.nan THEN NaN
    ELSE LET same == a.den = b.den
             x == IF same THEN a.num ELSE MagMul(a.num, b.den)
             y == IF same THEN b.num ELSE MagMul(b.num, a.den)
             d == IF same THEN a.den ELSE MagMul(a.den, b.den)
         IN  IF a.neg = b.neg THEN QMake(a.neg, MagAdd(x, y), d)
             ELSE IF MagCmp(x, y) >= 0 THEN QMake(a.neg, MagSub(x, y), d)
             ELSE QMake(b.neg, MagSub(y, x), d)

QSub(a, b) == QAdd(a, QNeg(b))

\* a / b for b # 0 (the callers raise ZeroDivisionError before dividing by 0)
QDiv(a, b) ==
    IF a.nan \/ b.nan THEN NaN
    ELSE QMake(a.neg # b.neg, MagMul(a.num, b.den), MagMul(a.den, b.num))

\* sign of a - b for numbers
QCmp(a, b) ==
    LET d == QSub(a, b)
    IN  IF d.num = <<>> THEN 0 ELSE IF d.neg THEN -1 ELSE 1

\* Python ==, <, <=, > on floats: every comparison with NaN is False
QEq(a, b) == ~a.nan /\ ~b.nan /\ QCmp(a, b) = 0
QLt(a, b) == ~a.nan /\ ~b.nan /\ QCmp(a, b) < 0
QLe(a, b) == ~a.nan /\ ~b.nan /\ QCmp(a, b) <= 0
QGt(a, b) == ~a.nan /\ ~b.nan /\ QCmp(a, b) > 0

\* same value, NaN matching NaN (pandas DataFrame.equals)
QSame(a, b) == (a.nan /\ b.nan) \/ QEq(a, b)


(***************************************************************************)
(* Strings.  FUEL, StateClassDesc and Type are only compared and looked    *)
(* up, so they are TLA+ strings; HVAC is searched for a substring, so it   *)
(* is a sequence of characters.  NA is pandas' missing value (NaN/None) in *)
(* a string column: equal to no string, member of no list.                 *)
(***************************************************************************)
NA == "<NA>"
NA_STR == <<NA>>

LowerCase == <<"a", "c", "d", "e", "f", "h", "i", "m", "o", "p", "r", "t", "u">>
UpperCase == <<"A", "C", "D", "E", "F", "H", "I", "M", "O", "P", "R", "T", "U">>

\* str.upper() on one character
ToUpper(c) ==
    IF \E i \in 1..Len(LowerCase) : LowerCase[i] = c
    THEN UpperCase[CHOOSE i \in 1..Len(LowerCase) : LowerCase[i] = c]
    ELSE c

Upper(s) == [i \in 1..Len(s) |-> ToUpper(s[i])]

\* pat occurs in s as a substring
IsSubstring(pat, s) ==
    \E i \in 0..(Len(s) - Len(pat)) : SubSeq(s, i + 1, i + Len(pat)) = pat

HEAT_PUMP == <<"H", "E", "A", "T", " ", "P", "U", "M", "P">>

\* Series.str.contains('HEAT PUMP', case=False, na=False) on one value
StrContainsHeatPump(hvac) ==
    hvac # NA_STR /\ IsSubstring(Upper(HEAT_PUMP), Upper(hvac))

(***************************************************************************)
(* Tables.  A loader returns None or a table; a table is the sequence of   *)
(* its rows.                                                               *)
(***************************************************************************)
None == [isNone |-> TRUE, rows |-> <<>>]
Table(rows) == [isNone |-> FALSE, rows |-> rows]

\* DataFrame[mask]: the rows that satisfy Test, in order
Filter(rows, Test(_)) == SelectSeq(rows, Test)

\* a NetSF cell: <<>> is null (NaN), <<n>> is the number n
NotNa(cell) == cell # <<>>
Positive(cell) == cell # <<>> /\ cell[1] > 0

RECURSIVE SumNetSF(_)
SumNetSF(rows) ==
    IF rows = <<>> THEN 0 ELSE Head(rows).NetSF[1] + SumNetSF(Tail(rows))

RECURSIVE InsertSorted(_, _)
InsertSorted(x, s) ==
    IF s = <<>> THEN <<x>>
    ELSE IF x <= Head(s) THEN <<x>> \o s
    ELSE <<Head(s)>> \o InsertSorted(x, Tail(s))

RECURSIVE SortedNetSF(_)
SortedNetSF(rows) ==
    IF rows = <<>> THEN <<>>
    ELSE InsertSorted(Head(rows).NetSF[1], SortedNetSF(Tail(rows)))

\* Series.median(): NaN for no value, the middle value, or the mean of the
\* two middle values
Median(rows) ==
    LET v == SortedNetSF(rows)
        n == Len(v)
    IN  IF n = 0 THEN NaN
        ELSE IF n % 2 = 1 THEN QInt(v[(n + 1) \div 2])
        ELSE QDiv(QInt(v[n \div 2] + v[n \div 2 + 1]), QInt(2))

RECURSIVE InsertByYear(_, _)
InsertByYear(r, s) ==
    IF s = <<>> THEN <<r>>
    ELSE IF r.Year < Head(s).Year THEN <<r>> \o s
    ELSE <<Head(s)>> \o InsertByYear(r, Tail(s))

\* heat_pump_df.sort_values('Year')
RECURSIVE SortByYear(_)
\* variant: the tracker rows stay in file order
SortByYearM(rows) == rows

SortByYear(rows) ==
    IF rows = <<>> THEN <<>>
    ELSE InsertByYear(rows[Len(rows)], SortByYear(SubSeq(rows, 1, Len(rows) - 1)))

\* int(x / 2) for Python ints: true division, then truncation toward zero
IntHalf(x) == IF x >= 0 THEN x \div 2 ELSE -((-x) \div 2)

(***************************************************************************)
(* Constants of data_loader.py, as decimal literals.                       *)
(***************************************************************************)
MOTELS_RESORTS == {"MOTELS", "RESORT CONDO", "INNS"}
COMMERCIAL_TYPES == {"RESTAURANTS", "SMALL RETAIL", "GEN OFFICE BLDG", "WAREHOUSE",
                     "BANK BLDG", "SERVICE STATION", "FUEL SERVICE", "MARINAS",
                     "CAMPING FAC", "MULTI-USE COM"}

OIL_CONSUMPTION == QDec(40, 2)
PROPANE_CONSUMPTION == QDec(39, 2)
ELECTRIC_RESISTANCE_CONSUMPTION == QDec(120, 1)
HEAT_PUMP_CONSUMPTION == QDec(40, 1)
OIL_EMISSION_FACTOR == QDec(1030, 5)
PROPANE_EMISSION_FACTOR == QDec(574, 5)
ELECTRIC_EMISSION_FACTOR == QDec(239, 6)
SEASONAL_PCT == QDec(671, 3)
SEASONAL_HEATING_FACTOR == QDec(30, 2)
YEARROUND_HEATING_FACTOR == QDec(100, 2)
COMMERCIAL_HEATING_FACTOR == QDec(65, 2)


(***************************************************************************)
(* State.                                                                  *)
(*   assessors_df, heat_pump_df  what load_assessors_data() and            *)
(*                               load_clc_heat_pump_data() return           *)
(*   active                      the call that is executing ("none": no    *)
(*                               estimator is running)                     *)
(*   pd, ff, re                  the frames (locals, position, result) of  *)
(*                               calculate_propane_displacement,           *)
(*                               calculate_total_fossil_fuel_heating and   *)
(*                               calculate_residential_emissions           *)
(***************************************************************************)
VARIABLES assessors_df, heat_pump_df, active, pd, ff, re

(***************************************************************************)
(*   vehicles_csv, vehicle_factors_df  the rows of data/TruroVehicles.csv  *)
(*                               and data/vehicles_factors.csv             *)
(*   energy_df, mass_save_data   what load_energy_data() and               *)
(*                               load_mass_save_data() return              *)
(*   lv                          the frame of load_vehicle_data            *)
(*   home                        the frame of the Home page script         *)
(***************************************************************************)
VARIABLES vehicles_csv, vehicle_factors_df, energy_df, mass_save_data, lv, home

(***************************************************************************)
(*   solar_csv                   the rows of data/solar_data.csv           *)
(*   sv                          the frame of the Annual Savings page      *)
(*   energy_sheet                what the Municipal Energy page's own      *)
(*                               load_energy_data() returns                *)
(*   me                          the frame of the Municipal Energy page    *)
(*   vp                          the frame of the Vehicles page            *)
(*   rp                          the totals of the Residential Energy page *)
(***************************************************************************)
VARIABLES solar_csv, sv, energy_sheet, me, vp, rp

pageVars == <<solar_csv, sv, energy_sheet, me, vp, rp>>
buildingVars == <<assessors_df, heat_pump_df, pd, ff, re>>
vehicleVars == <<vehicles_csv, vehicle_factors_df, energy_df, mass_save_data, lv, home>>
vars == <<assessors_df, heat_pump_df, active, pd, ff, re,
          vehicles_csv, vehicle_factors_df, energy_df, mass_save_data, lv, home,
          solar_csv, sv, energy_sheet, me, vp, rp>>

(***************************************************************************)
(* calculate_propane_displacement                                          *)
(***************************************************************************)
\* the mask of propane_residential
IsPropaneResidential(r) ==
    /\ r.PropertyType = "R"
    /\ r.FUEL = "GAS"
    /\ NotNa(r.NetSF)
    /\ Positive(r.NetSF)
    /\ r.StateClassDesc \notin MOTELS_RESORTS
    /\ r.StateClassDesc \notin COMMERCIAL_TYPES

HasHeatPump(r) == StrContainsHeatPump(r.HVAC)

\* len(assessors_df[assessors_df['HVAC'].str.contains('HEAT PUMP', ...)])
BaselineHeatPumps(rows) == Len(Filter(rows, HasHeatPump))

\* int((baseline_heat_pumps_2019 + first_clc_locations) / 2)
Interpolate2020(baseline, first) == IntHalf(baseline + first)

PdIdle ==
    [pc |-> "idle", ret |-> "none",
     median_sqft |-> NaN, total_propane_properties |-> 0,
     propane_per_property_gal |-> NaN, propane_per_property_mtco2e |-> NaN,
     baseline_propane_gal |-> NaN, baseline_propane_mtco2e |-> NaN,
     baseline_heat_pumps_2019 |-> 0, heat_pump_df_sorted |-> <<>>,
     interpolated_2020_locations |-> 0, idx |-> 0, results |-> <<>>]

\* lines 309-352: the locals computed before the first row
PdBaseline(f, rows, tracker) ==
    LET propane_residential == Filter(rows, IsPropaneResidential)
        median_sqft == Median(propane_residential)
        total == Len(propane_residential)
        per_gal == QMul(QMul(median_sqft, PROPANE_CONSUMPTION), QDec(100, 2))
        per_mtco2e == QMul(per_gal, PROPANE_EMISSION_FACTOR)
        baseline == BaselineHeatPumps(rows)
        sorted == SortByYear(tracker)
    IN  [f EXCEPT
           !.median_sqft = median_sqft,
           !.total_propane_properties = total,
           !.propane_per_property_gal = per_gal,
           !.propane_per_property_mtco2e = per_mtco2e,
           !.baseline_propane_gal = QMul(QInt(total), per_gal),
           !.baseline_propane_mtco2e = QMul(QInt(total), per_mtco2e),
           !.baseline_heat_pumps_2019 = baseline,
           !.heat_pump_df_sorted = sorted,
           !.interpolated_2020_locations =
               IF sorted = <<>> THEN 0
               ELSE Interpolate2020(baseline, sorted[1].Locations)]

\* variant: the difference taken the wrong way round
ConversionsM(locations, baseline) == baseline - locations

\* locations - baseline_heat_pumps_2019 (lines 371, 390, 523, 539)
Conversions(locations, baseline) == locations - baseline

\* variant: the converted properties are not taken off
RemainingPropertiesM(total, conversions) == total

\* total_propane_properties - conversions (lines 376-378, 393)
RemainingProperties(total, conversions) == total - conversions

PdRow2019(f) ==
    [Year |-> 2019,
     Heat_Pump_Locations |-> f.baseline_heat_pumps_2019,
     Cumulative_Conversions |-> 0,
     Remaining_Propane_Properties |-> f.total_propane_properties,
     Remaining_Propane_Gal |-> f.baseline_propane_gal,
     Remaining_Propane_mtCO2e |-> f.baseline_propane_mtco2e,
     Propane_Saved_Gal |-> QInt(0),
     Propane_Saved_mtCO2e |-> QInt(0),
     Percent_Reduction |-> QInt(0)]

\* conversions / total_propane_properties * 100
Percent(conversions, total) ==
    QMul(QDiv(QInt(conversions), QInt(total)), QInt(100))

\* line 381: the 2020 row divides unconditionally
PercentReduction2020(conversions, total) == Percent(conversions, total)

\* line 410: (conversions / total * 100) if conversions > 0 else 0
PercentReductionTracked(conversions, total) ==
    IF conversions > 0 THEN Percent(conversions, total) ELSE QInt(0)

PdRow2020(f) ==
    LET conversions_2020 ==
            Conversions(f.interpolated_2020_locations, f.baseline_heat_pumps_2019)
        remaining == RemainingProperties(f.total_propane_properties, conversions_2020)
    IN  [Year |-> 2020,
         Heat_Pump_Locations |-> f.interpolated_2020_locations,
         Cumulative_Conversions |-> conversions_2020,
         Remaining_Propane_Properties |-> remaining,
         Remaining_Propane_Gal |->
             QMul(QInt(remaining), f.propane_per_property_gal),
         Remaining_Propane_mtCO2e |->
             QMul(QInt(remaining), f.propane_per_property_mtco2e),
         Propane_Saved_Gal |->
             QMul(QInt(conversions_2020), f.propane_per_property_gal),
         Propane_Saved_mtCO2e |->
             QMul(QInt(conversions_2020), f.propane_per_property_mtco2e),
         Percent_Reduction |->
             PercentReduction2020(conversions_2020, f.total_propane_properties)]

PdRowTracked(f, row) ==
    LET year == row.Year
        locations == row.Locations
        conversions == Conversions(locations, f.baseline_heat_pumps_2019)
        remaining_propane_properties ==
            RemainingProperties(f.total_propane_properties, conversions)
    IN  [Year |-> year,
         Heat_Pump_Locations |-> locations,
         Cumulative_Conversions |-> conversions,
         Remaining_Propane_Properties |-> remaining_propane_properties,
         Remaining_Propane_Gal |->
             QMul(QInt(remaining_propane_properties), f.propane_per_property_gal),
         Remaining_Propane_mtCO2e |->
             QMul(QInt(remaining_propane_properties), f.propane_per_property_mtco2e),
         Propane_Saved_Gal |-> QMul(QInt(conversions), f.propane_per_property_gal),
         Propane_Saved_mtCO2e |->
             QMul(QInt(conversions), f.propane_per_property_mtco2e),
         Percent_Reduction |->
             PercentReductionTracked(conversions, f.total_propane_properties)]

\* lines 302-307: the call and its None check
PD_Load ==
    /\ active = "none"
    /\ pd.pc = "idle"
    /\ IF assessors_df.isNone \/ heat_pump_df.isNone
       THEN /\ pd' = [pd EXCEPT !.pc = "done", !.ret = "None"]
            /\ UNCHANGED active
       ELSE /\ pd' = [pd EXCEPT !.pc = "baseline"]
            /\ active' = "pd"
    /\ UNCHANGED <<assessors_df, heat_pump_df, ff, re, vehicleVars, pageVars>>

\* lines 309-352; iloc[0] of an empty tracker raises IndexError
PD_Baseline ==
    /\ active = "pd"
    /\ pd.pc = "baseline"
    /\ LET f == PdBaseline(pd, assessors_df.rows, heat_pump_df.rows)
       IN  IF f.heat_pump_df_sorted = <<>>
           THEN /\ pd' = [f EXCEPT !.pc = "raised", !.ret = "IndexError"]
                /\ active' = "none"
           ELSE /\ pd' = [f EXCEPT !.pc = "row2019"]
                /\ UNCHANGED active
    /\ UNCHANGED <<assessors_df, heat_pump_df, ff, re, vehicleVars, pageVars>>

\* lines 357-368
PD_Row2019 ==
    /\ active = "pd"
    /\ pd.pc = "row2019"
    /\ pd' = [pd EXCEPT !.pc = "row2020", !.results = Append(@, PdRow2019(pd))]
    /\ UNCHANGED <<assessors_df, heat_pump_df, active, ff, re, vehicleVars, pageVars>>

\* lines 370-382; int / int with total_propane_properties = 0 raises
\* ZeroDivisionError
PD_Row2020 ==
    /\ active = "pd"
    /\ pd.pc = "row2020"
    /\ IF pd.total_propane_properties = 0
       THEN /\ pd' = [pd EXCEPT !.pc = "raised", !.ret = "ZeroDivisionError"]
            /\ active' = "none"
       ELSE /\ pd' = [pd EXCEPT !.pc = "tracked", !.idx = 1,
                                !.results = Append(@, PdRow2020(pd))]
            /\ UNCHANGED active
    /\ UNCHANGED <<assessors_df, heat_pump_df, ff, re, vehicleVars, pageVars>>

\* lines 385-411: one iteration of the loop over heat_pump_df_sorted
PD_RowTracked ==
    /\ active = "pd"
    /\ pd.pc = "tracked"
    /\ pd.idx <= Len(pd.heat_pump_df_sorted)
    /\ pd' = [pd EXCEPT !.idx = @ + 1,
                        !.results = Append(@, PdRowTracked(pd, pd.heat_pump_df_sorted[pd.idx]))]
    /\ UNCHANGED <<assessors_df, heat_pump_df, active, ff, re, vehicleVars, pageVars>>

\* lines 413-428: return results_df, metadata
PD_Return ==
    /\ active = "pd"
    /\ pd.pc = "tracked"
    /\ pd.idx > Len(pd.heat_pump_df_sorted)
    /\ pd' = [pd EXCEPT !.pc = "done", !.ret = "tuple"]
    /\ active' = "none"
    /\ UNCHANGED <<assessors_df, heat_pump_df, ff, re, vehicleVars, pageVars>>


(***************************************************************************)
(* calculate_total_fossil_fuel_heating                                     *)
(***************************************************************************)
\* the mask of df_calc (residential/commercial with positive area)
\* variant: the filter keeps every property type
FfKeptM(r) == NotNa(r.NetSF) /\ Positive(r.NetSF)

FfKept(r) == r.PropertyType = "R" /\ NotNa(r.NetSF) /\ Positive(r.NetSF)

IsOil(r) == r.FUEL = "OIL"
IsGas(r) == r.FUEL = "GAS"

\* variant: motels, resort condos and inns stay in the tracked population
FfTrackedM(r) == r.StateClassDesc \notin COMMERCIAL_TYPES

\* the mask of tracked_propane_properties within all_propane_properties
FfTracked(r) ==
    /\ r.StateClassDesc \notin MOTELS_RESORTS
    /\ r.StateClassDesc \notin COMMERCIAL_TYPES

\* SEASONAL_PCT * SEASONAL_HEATING_FACTOR + (1 - SEASONAL_PCT) * YEARROUND_HEATING_FACTOR
AvgSeasonalFactor ==
    QAdd(QMul(SEASONAL_PCT, SEASONAL_HEATING_FACTOR),
         QMul(QSub(QInt(1), SEASONAL_PCT), YEARROUND_HEATING_FACTOR))

FfIdle ==
    [pc |-> "idle", ret |-> "none",
     oil_properties |-> 0, oil_emissions_mtco2e |-> NaN,
     total_propane_count |-> 0, baseline_propane_mtco2e_seasonal |-> NaN,
     tracked_propane_count |-> 0, tracked_propane_median_sqft |-> NaN,
     propane_per_property_mtco2e_yearround |-> NaN,
     baseline_heat_pumps_2019 |-> 0, heat_pump_df_sorted |-> <<>>,
     interpolated_2020_locations |-> 0, idx |-> 0, results |-> <<>>]

\* lines 452-506: the locals computed before the first row
FfBaseline(f, rows, tracker) ==
    LET df_calc == Filter(rows, FfKept)
        oil_properties == Filter(df_calc, IsOil)
        oil_sqft_total == SumNetSF(oil_properties)
        all_propane_properties == Filter(df_calc, IsGas)
        propane_total_sqft == SumNetSF(all_propane_properties)
        tracked_propane_properties == Filter(all_propane_properties, FfTracked)
        median == Median(tracked_propane_properties)
        per_gal == QMul(QMul(median, PROPANE_CONSUMPTION), QDec(100, 2))
        baseline == BaselineHeatPumps(rows)
        sorted == SortByYear(tracker)
    IN  [f EXCEPT
           !.oil_properties = Len(oil_properties),
           !.oil_emissions_mtco2e =
               QMul(QMul(QMul(QInt(oil_sqft_total), OIL_CONSUMPTION),
                         AvgSeasonalFactor), OIL_EMISSION_FACTOR),
           !.total_propane_count = Len(all_propane_properties),
           !.baseline_propane_mtco2e_seasonal =
               QMul(QMul(QMul(QInt(propane_total_sqft), PROPANE_CONSUMPTION),
                         AvgSeasonalFactor), PROPANE_EMISSION_FACTOR),
           !.tracked_propane_count = Len(tracked_propane_properties),
           !.tracked_propane_median_sqft = median,
           !.propane_per_property_mtco2e_yearround =
               QMul(per_gal, PROPANE_EMISSION_FACTOR),
           !.baseline_heat_pumps_2019 = baseline,
           !.heat_pump_df_sorted = sorted,
           !.interpolated_2020_locations =
               IF sorted = <<>> THEN 0
               ELSE Interpolate2020(baseline, sorted[1].Locations)]

FfRow2019(f) ==
    [year |-> 2019,
     heat_pump_locations |-> f.baseline_heat_pumps_2019,
     cumulative_conversions |-> 0,
     oil_mtco2e |-> f.oil_emissions_mtco2e,
     propane_mtco2e |-> f.baseline_propane_mtco2e_seasonal,
     propane_mtco2e_eliminated |-> QInt(0),
     total_fossil_fuel_mtco2e |->
         QAdd(f.oil_emissions_mtco2e, f.baseline_propane_mtco2e_seasonal)]

\* variant: the total leaves the oil emissions out
FfRowM(f, year, locations) ==
    LET conversions == Conversions(locations, f.baseline_heat_pumps_2019)
        propane_eliminated ==
            QMul(QInt(conversions), f.propane_per_property_mtco2e_yearround)
        propane_remaining ==
            QSub(f.baseline_propane_mtco2e_seasonal, propane_eliminated)
    IN  [year |-> year,
         heat_pump_locations |-> locations,
         cumulative_conversions |-> conversions,
         oil_mtco2e |-> f.oil_emissions_mtco2e,
         propane_mtco2e |-> propane_remaining,
         propane_mtco2e_eliminated |-> propane_eliminated,
         total_fossil_fuel_mtco2e |-> propane_remaining]

\* a row of 2020 (the interpolated count) or of a tracked year
FfRow(f, year, locations) ==
    LET conversions == Conversions(locations, f.baseline_heat_pumps_2019)
        propane_eliminated ==
            QMul(QInt(conversions), f.propane_per_property_mtco2e_yearround)
        propane_remaining ==
            QSub(f.baseline_propane_mtco2e_seasonal, propane_eliminated)
    IN  [year |-> year,
         heat_pump_locations |-> locations,
         cumulative_conversions |-> conversions,
         oil_mtco2e |-> f.oil_emissions_mtco2e,
         propane_mtco2e |-> propane_remaining,
         propane_mtco2e_eliminated |-> propane_eliminated,
         total_fossil_fuel_mtco2e |->
             QAdd(f.oil_emissions_mtco2e, propane_remaining)]

\* lines 446-450: the call and its None check
FF_Load ==
    /\ active = "none"
    /\ ff.pc = "idle"
    /\ IF assessors_df.isNone \/ heat_pump_df.isNone
       THEN /\ ff' = [ff EXCEPT !.pc = "done", !.ret = "None"]
            /\ UNCHANGED active
       ELSE /\ ff' = [ff EXCEPT !.pc = "baseline"]
            /\ active' = "ff"
    /\ UNCHANGED <<assessors_df, heat_pump_df, pd, re, vehicleVars, pageVars>>

\* lines 452-506; iloc[0] of an empty tracker raises IndexError
FF_Baseline ==
    /\ active = "ff"
    /\ ff.pc = "baseline"
    /\ LET f == FfBaseline(ff, assessors_df.rows, heat_pump_df.rows)
       IN  IF f.heat_pump_df_sorted = <<>>
           THEN /\ ff' = [f EXCEPT !.pc = "raised", !.ret = "IndexError"]
                /\ active' = "none"
           ELSE /\ ff' = [f EXCEPT !.pc = "row2019"]
                /\ UNCHANGED active
    /\ UNCHANGED <<assessors_df, heat_pump_df, pd, re, vehicleVars, pageVars>>

\* lines 511-520
FF_Row2019 ==
    /\ active = "ff"
    /\ ff.pc = "row2019"
    /\ ff' = [ff EXCEPT !.pc = "row2020", !.results = Append(@, FfRow2019(ff))]
    /\ UNCHANGED <<assessors_df, heat_pump_df, active, pd, re, vehicleVars, pageVars>>

\* lines 522-533
FF_Row2020 ==
    /\ active = "ff"
    /\ ff.pc = "row2020"
    /\ ff' = [ff EXCEPT !.pc = "tracked", !.idx = 1,
                        !.results = Append(@, FfRow(ff, 2020, ff.interpolated_2020_locations))]
    /\ UNCHANGED <<assessors_df, heat_pump_df, active, pd, re, vehicleVars, pageVars>>

\* lines 535-551: one iteration of the loop over heat_pump_df_sorted
FF_RowTracked ==
    /\ active = "ff"
    /\ ff.pc = "tracked"
    /\ ff.idx <= Len(ff.heat_pump_df_sorted)
    /\ LET row == ff.heat_pump_df_sorted[ff.idx]
       IN  ff' = [ff EXCEPT !.idx = @ + 1,
                            !.results = Append(@, FfRow(ff, row.Year, row.Locations))]
    /\ UNCHANGED <<assessors_df, heat_pump_df, active, pd, re, vehicleVars, pageVars>>

\* lines 553-567: return results_df, metadata
FF_Return ==
    /\ active = "ff"
    /\ ff.pc = "tracked"
    /\ ff.idx > Len(ff.heat_pump_df_sorted)
    /\ ff' = [ff EXCEPT !.pc = "done", !.ret = "tuple"]
    /\ active' = "none"
    /\ UNCHANGED <<assessors_df, heat_pump_df, pd, re, vehicleVars, pageVars>>

(***************************************************************************)
(* calculate_residential_emissions(df)                                     *)
(***************************************************************************)
\* the mask of df_calc, line 210
ReKept(r) == r.PropertyType = "R" /\ NotNa(r.NetSF) /\ Positive(r.NetSF)

\* lines 239-241
\* variant: a commercial property is also flagged residential
ClassifyM(r) ==
    LET is_motel_resort == r.StateClassDesc \in MOTELS_RESORTS
        is_commercial == r.StateClassDesc \in COMMERCIAL_TYPES
    IN  r @@ [is_motel_resort |-> is_motel_resort,
              is_commercial |-> is_commercial,
              is_residential |-> ~is_motel_resort]

Classify(r) ==
    LET is_motel_resort == r.StateClassDesc \in MOTELS_RESORTS
        is_commercial == r.StateClassDesc \in COMMERCIAL_TYPES
    IN  r @@ [is_motel_resort |-> is_motel_resort,
              is_commercial |-> is_commercial,
              is_residential |-> ~(is_motel_resort \/ is_commercial)]

\* variant: commercial properties fall through to the residential split
get_seasonal_factorM(row) ==
    IF row.is_motel_resort THEN SEASONAL_HEATING_FACTOR
    ELSE QAdd(QMul(SEASONAL_PCT, SEASONAL_HEATING_FACTOR),
              QMul(QSub(QInt(1), SEASONAL_PCT), YEARROUND_HEATING_FACTOR))

\* get_seasonal_factor(row), lines 244-253
get_seasonal_factor(row) ==
    IF row.is_motel_resort THEN SEASONAL_HEATING_FACTOR
    ELSE IF row.is_commercial THEN COMMERCIAL_HEATING_FACTOR
    ELSE QAdd(QMul(SEASONAL_PCT, SEASONAL_HEATING_FACTOR),
              QMul(QSub(QInt(1), SEASONAL_PCT), YEARROUND_HEATING_FACTOR))

\* calculate_emissions(row), lines 258-281
calculate_emissions(row) ==
    LET sqft == QInt(row.NetSF[1])
        fuel == row.FUEL
        hvac == row.HVAC
        seasonal_adj == row.seasonal_factor
    IN  IF fuel = "OIL"
        THEN QMul(QMul(QMul(sqft, OIL_CONSUMPTION), seasonal_adj), OIL_EMISSION_FACTOR)
        ELSE IF fuel = "GAS"
        THEN QMul(QMul(QMul(sqft, PROPANE_CONSUMPTION), seasonal_adj),
                  PROPANE_EMISSION_FACTOR)
        ELSE IF fuel = "ELECTRIC"
        THEN QMul(QMul(QMul(sqft, IF hvac = HEAT_PUMP THEN HEAT_PUMP_CONSUMPTION
                                  ELSE ELECTRIC_RESISTANCE_CONSUMPTION),
                       seasonal_adj), ELECTRIC_EMISSION_FACTOR)
        ELSE QInt(0)

ReIdle == [pc |-> "idle", ret |-> "none", df_calc |-> <<>>]

\* df[col] = df.apply(f, axis=1): column col computed row by row
WithColumn(rows, col, f(_)) ==
    [i \in 1..Len(rows) |-> rows[i] @@ (col :> f(rows[i]))]

\* the pages call calculate_residential_emissions(df) under `if df is not None`;
\* line 210
RE_Filter ==
    /\ active = "none"
    /\ re.pc = "idle"
    /\ ~assessors_df.isNone
    /\ re' = [re EXCEPT !.pc = "classify",
                        !.df_calc = Filter(assessors_df.rows, ReKept)]
    /\ active' = "re"
    /\ UNCHANGED <<assessors_df, heat_pump_df, pd, ff, vehicleVars, pageVars>>

\* lines 238-241
RE_Classify ==
    /\ active = "re"
    /\ re.pc = "classify"
    /\ re' = [re EXCEPT !.pc = "seasonal",
                        !.df_calc = [i \in 1..Len(@) |-> Classify(@[i])]]
    /\ UNCHANGED <<assessors_df, heat_pump_df, active, pd, ff, vehicleVars, pageVars>>

\* line 255
RE_Seasonal ==
    /\ active = "re"
    /\ re.pc = "seasonal"
    /\ re' = [re EXCEPT !.pc = "emissions",
                        !.df_calc = WithColumn(@, "seasonal_factor", get_seasonal_factor)]
    /\ UNCHANGED <<assessors_df, heat_pump_df, active, pd, ff, vehicleVars, pageVars>>

\* lines 283-285
RE_Emissions ==
    /\ active = "re"
    /\ re.pc = "emissions"
    /\ re' = [re EXCEPT !.pc = "done", !.ret = "df_calc",
                        !.df_calc = WithColumn(@, "mtco2e", calculate_emissions)]
    /\ active' = "none"
    /\ UNCHANGED <<assessors_df, heat_pump_df, pd, ff, vehicleVars, pageVars>>


(***************************************************************************)
(* load_vehicle_data                                                       *)
(***************************************************************************)
gal_emission_factor == QDec(882, 5)
diesel_emission_factor == QDec(1030, 5)
kwh_emission_factor == QDec(239, 6)

\* the largest k in lo..hi-1 with k * d <= n, for lo * d <= n < hi * d
RECURSIVE FloorSearch(_, _, _, _)
FloorSearch(n, d, lo, hi) ==
    IF hi - lo <= 1 THEN lo
    ELSE LET mid == (lo + hi) \div 2
         IN  IF MagCmp(MagMul(MagFromNat(mid), d), n) <= 0
             THEN FloorSearch(n, d, mid, hi)
             ELSE FloorSearch(n, d, lo, mid)

RoundLimit == 128 * 128

\* round(x, 2) for 0 <= x < RoundLimit / 100: the nearest hundredth, a tie
\* going to the even one
Round2(x) ==
    IF x.nan THEN NaN
    ELSE LET n == MagMulLimb(x.num, 100, 0)
             h == FloorSearch(n, x.den, 0, RoundLimit)
             twiceRest == MagMulLimb(MagSub(n, MagMul(MagFromNat(h), x.den)), 2, 0)
             c == MagCmp(twiceRest, x.den)
             up == c > 0 \/ (c = 0 /\ h % 2 = 1)
         IN  QMake(x.neg, MagFromNat(IF up THEN h + 1 ELSE h), Pow10(2))

\* the mapping of gallons to tCO2e, lines 49-53
\* variant: motorcycles take the gasoline factor
GallonFactorM(vehicle_type) ==
    IF vehicle_type = "Diesel" THEN diesel_emission_factor ELSE gal_emission_factor

GallonFactor(vehicle_type) ==
    IF vehicle_type = "Diesel" \/ vehicle_type = "Motorcycle Gasoline"
    THEN diesel_emission_factor
    ELSE gal_emission_factor

\* lines 39-47: miles / mpg when mpg is present and > 0, else 0
Consumption(miles_per_year, per_unit) ==
    IF NotNa(per_unit) /\ per_unit[1] > 0
    THEN QDiv(QInt(miles_per_year), QInt(per_unit[1]))
    ELSE QInt(0)

\* lines 35-60: the rounded tCO2e of one vehicle of a factor row
PerVehicle(row) ==
    LET gal_used == Consumption(row.Miles, row.MPgal)
        kwh_used == Consumption(row.Miles, row.MPkwh)
        tco2e_from_gal == QMul(gal_used, GallonFactor(row.Type))
        tco2e_from_kwh == QMul(kwh_used, kwh_emission_factor)
    IN  Round2(QAdd(tco2e_from_gal, tco2e_from_kwh))

\* variant: only a blank type is skipped, a missing one becomes a key
SkipFactorRowM(row) == row.Type = ""

\* lines 31-33: a row with a blank or missing type is skipped
SkipFactorRow(row) == row.Type = "" \/ row.Type = NA

\* tco2e_per_vehicle.get(type, 0)
DictGet(dict, type) == IF type \in DOMAIN dict THEN dict[type] ELSE QInt(0)

\* variant: the vehicle count is not applied
RowTCo2eM(dict, row) == DictGet(dict, row.Type)

\* line 64
RowTCo2e(dict, row) == QMul(QInt(row.Number), DictGet(dict, row.Type))

EmptyDict == [t \in {} |-> NaN]

LvIdle == [pc |-> "idle", ret |-> "none", idx |-> 0,
           tco2e_per_vehicle |-> EmptyDict, vehicles_df |-> <<>>]

\* lines 9-28: the call; a file that cannot be read is caught at line 70
LV_Load ==
    /\ active = "none"
    /\ lv.pc = "idle"
    /\ IF vehicles_csv.isNone \/ vehicle_factors_df.isNone
       THEN /\ lv' = [lv EXCEPT !.pc = "done", !.ret = "None"]
            /\ UNCHANGED active
       ELSE /\ lv' = [lv EXCEPT !.pc = "factors", !.idx = 1,
                                !.vehicles_df = vehicles_csv.rows]
            /\ active' = "lv"
    /\ UNCHANGED <<pageVars, buildingVars, vehicles_csv, vehicle_factors_df, energy_df,
                   mass_save_data, home>>

\* lines 30-60: one iteration of the loop over vehicle_factors_df
LV_FactorRow ==
    /\ active = "lv"
    /\ lv.pc = "factors"
    /\ lv.idx <= Len(vehicle_factors_df.rows)
    /\ LET row == vehicle_factors_df.rows[lv.idx]
       IN  lv' = [lv EXCEPT
                    !.idx = @ + 1,
                    !.tco2e_per_vehicle =
                        IF SkipFactorRow(row) THEN @
                        ELSE [t \in DOMAIN @ \cup {row.Type} |->
                                IF t = row.Type THEN PerVehicle(row) ELSE @[t]]]
    /\ UNCHANGED <<pageVars, buildingVars, active, vehicles_csv, vehicle_factors_df,
                   energy_df, mass_save_data, home>>

\* lines 62-68: the tCo2e column, and the return
LV_Apply ==
    /\ active = "lv"
    /\ lv.pc = "factors"
    /\ lv.idx > Len(vehicle_factors_df.rows)
    /\ lv' = [lv EXCEPT
                !.pc = "done", !.ret = "vehicles_df",
                !.vehicles_df =
                    [i \in 1..Len(@) |->
                       @[i] @@ [tCo2e |-> RowTCo2e(lv.tco2e_per_vehicle, @[i])]]]
    /\ active' = "none"
    /\ UNCHANGED <<pageVars, buildingVars, vehicles_csv, vehicle_factors_df, energy_df,
                   mass_save_data, home>>

(***************************************************************************)
(* Home.py: the vehicle part of the sector rollup                          *)
(***************************************************************************)
HomeIdle == [pc |-> "idle", ret |-> "none", run |-> 1,
             vehicles_df |-> <<>>, vehicles_q1 |-> <<>>,
             vehicles_q1_adjusted |-> <<>>, vehicles_yearly |-> <<>>,
             energy_df |-> <<>>, energy_electric |-> <<>>, energy_other |-> <<>>,
             energy_yearly |-> <<>>, fossil_fuel_yearly |-> <<>>,
             residential_electric_yearly |-> <<>>,
             commercial_electric_yearly |-> <<>>, combined_df |-> <<>>,
             first_loaded |-> <<>>, first_combined_df |-> <<>>]

\* variant: load_vehicle_data hands every caller the cached object itself
CachedAfterWriteM(cached, written) == written

\* data_loader.py line 6, st.cache_data: a caller gets a copy of the cached
\* table, so what the caller writes into its table does not reach the cache
CachedAfterWrite(cached, written) == cached

\* variant: the rows of every month are kept
IsJanuaryM(r) == TRUE

\* Home.py line 32 and pages/6_Annual_Savings.py line 74: Month == 1
IsJanuary(r) == r.Month = 1
NotBatteryElectric(r) == r.Type # "Battery Electric"

\* variant: plug-in hybrids are counted in full
HalvePlugInM(r) == r

\* line 46: .loc[Type == 'Plug-in Hybrid', 'tCo2e'] *= 0.5
HalvePlugIn(r) ==
    IF r.Type = "Plug-in Hybrid"
    THEN [r EXCEPT !.tCo2e = QMul(@, QDec(5, 1))]
    ELSE r

RECURSIVE SumTCo2e(_)
SumTCo2e(rows) ==
    IF rows = <<>> THEN QInt(0) ELSE QAdd(Head(rows).tCo2e, SumTCo2e(Tail(rows)))

RECURSIVE SortedInts(_)
SortedInts(S) ==
    IF S = {} THEN <<>>
    ELSE LET m == CHOOSE x \in S : \A y \in S : x <= y
         IN  <<m>> \o SortedInts(S \ {m})

\* groupby('year')['tCo2e'].sum().reset_index(): one row per year, by year
GroupByYear(rows) ==
    LET years == SortedInts({rows[i].year : i \in 1..Len(rows)})
    IN  [k \in 1..Len(years) |->
           [year |-> years[k],
            vehicles_tco2e |->
                SumTCo2e(SelectSeq(rows, LAMBDA r : r.year = years[k]))]]

\* variant: the Mass Save table is not asked for
HomeInputsPresentM(vehicles_ret, energy, mass_save, fossil_fuel_ret) ==
    vehicles_ret # "None" /\ ~energy.isNone /\ fossil_fuel_ret # "None"

\* line 21: vehicles_df is not None and energy_df is not None and
\* mass_save_data is not None and fossil_fuel_data_tuple is not None
HomeInputsPresent(vehicles_ret, energy, mass_save, fossil_fuel_ret) ==
    /\ vehicles_ret # "None"
    /\ ~energy.isNone
    /\ ~mass_save.isNone
    /\ fossil_fuel_ret # "None"

\* lines 15-24: the four loads and the guard on them
H_Load ==
    /\ active = "none"
    /\ home.pc = "idle"
    /\ lv.pc = "done"
    /\ ff.pc \in {"done", "raised"}
    /\ IF ff.pc = "raised"
       THEN home' = [home EXCEPT !.pc = "raised", !.ret = ff.ret]
       ELSE IF ~HomeInputsPresent(lv.ret, energy_df, mass_save_data, ff.ret)
       THEN home' = [home EXCEPT !.pc = "error"]
       ELSE home' = [home EXCEPT !.pc = "quarters", !.vehicles_df = lv.vehicles_df,
                                 !.first_loaded =
                                     IF home.run = 1 THEN lv.vehicles_df ELSE @]
    /\ active' = IF home'.pc = "quarters" THEN "home" ELSE "none"
    /\ UNCHANGED <<pageVars, buildingVars, vehicles_csv, vehicle_factors_df,
                   energy_df, mass_save_data, lv>>

\* lines 26-35: Quarter_Date and Month columns, the January rows, year - 1
H_Quarters ==
    /\ active = "home"
    /\ home.pc = "quarters"
    /\ LET dated == [i \in 1..Len(home.vehicles_df) |->
                       home.vehicles_df[i] @@
                       [Quarter_Date |-> home.vehicles_df[i].Quarter,
                        Month |-> home.vehicles_df[i].Quarter.month]]
           q1 == Filter(dated, IsJanuary)
       IN  /\ home' = [home EXCEPT
                         !.pc = "adjust",
                         !.vehicles_df = dated,
                         !.vehicles_q1 =
                             [i \in 1..Len(q1) |->
                                q1[i] @@ [year |-> q1[i].Quarter_Date.year - 1]]]
           /\ lv' = [lv EXCEPT !.vehicles_df = CachedAfterWrite(@, dated)]
    /\ UNCHANGED <<pageVars, buildingVars, active, vehicles_csv, vehicle_factors_df,
                   energy_df, mass_save_data>>

\* lines 37-46: the double-counting adjustment
H_Adjust ==
    /\ active = "home"
    /\ home.pc = "adjust"
    /\ LET kept == Filter(home.vehicles_q1, NotBatteryElectric)
       IN  home' = [home EXCEPT
                      !.pc = "yearly",
                      !.vehicles_q1_adjusted =
                          [i \in 1..Len(kept) |-> HalvePlugIn(kept[i])]]
    /\ UNCHANGED <<pageVars, buildingVars, active, vehicles_csv, vehicle_factors_df,
                   energy_df, mass_save_data, lv>>

\* lines 48-50
H_VehiclesYearly ==
    /\ active = "home"
    /\ home.pc = "yearly"
    /\ home' = [home EXCEPT !.pc = "energy",
                            !.vehicles_yearly = GroupByYear(home.vehicles_q1_adjusted)]
    /\ UNCHANGED <<pageVars, buildingVars, active, vehicles_csv, vehicle_factors_df,
                   energy_df, mass_save_data, lv>>


(***************************************************************************)
(* Tables keyed by year.  A row is a record with an integer field year;    *)
(* every other column of a merged table is a float.                        *)
(***************************************************************************)
YearsOf(rows) == {rows[i].year : i \in 1..Len(rows)}

OfYear(rows, y) == SelectSeq(rows, LAMBDA r : r.year = y)

FromYear(rows, first) == SelectSeq(rows, LAMBDA r : r.year >= first)

\* the rows pd.merge builds for one key: every pairing of the left rows with
\* the right rows of that year, a side without rows giving NaN columns
JoinYear(left, right, lnan, rnan, y) ==
    LET l == OfYear(left, y)
        r == OfYear(right, y)
    IN  IF r = <<>> THEN [i \in 1..Len(l) |-> l[i] @@ rnan]
        ELSE IF l = <<>> THEN [i \in 1..Len(r) |-> r[i] @@ lnan]
        ELSE [k \in 1..(Len(l) * Len(r)) |->
                l[((k - 1) \div Len(r)) + 1] @@ r[((k - 1) % Len(r)) + 1]]

RECURSIVE JoinYears(_, _, _, _, _)
JoinYears(left, right, lnan, rnan, years) ==
    IF years = <<>> THEN <<>>
    ELSE JoinYear(left, right, lnan, rnan, Head(years))
         \o JoinYears(left, right, lnan, rnan, Tail(years))

\* pd.merge(left, right, on='year', how='outer'): the keys of both sides, sorted
OuterMerge(left, right, lnan, rnan) ==
    JoinYears(left, right, lnan, rnan, SortedInts(YearsOf(left) \cup YearsOf(right)))

\* pd.merge(left, right, on='year', how='left'): the left rows in their order
RECURSIVE LeftMerge(_, _, _)
LeftMerge(left, right, rnan) ==
    IF left = <<>> THEN <<>>
    ELSE JoinYear(<<Head(left)>>, right, rnan, rnan, Head(left).year)
         \o LeftMerge(Tail(left), right, rnan)

\* .fillna(0)
FillNa(rows) ==
    [i \in 1..Len(rows) |->
        [c \in DOMAIN rows[i] |->
            IF c = "year" THEN rows[i][c]
            ELSE IF rows[i][c].nan THEN QInt(0) ELSE rows[i][c]]]

\* .sort_values('year')
RECURSIVE SortYear(_)
SortYear(rows) ==
    IF rows = <<>> THEN <<>>
    ELSE LET m == CHOOSE y \in YearsOf(rows) : \A z \in YearsOf(rows) : y <= z
         IN  OfYear(rows, m) \o SortYear(SelectSeq(rows, LAMBDA r : r.year # m))

\* groupby('year')[col].sum().reset_index() with the sum named out
RECURSIVE SumColumn(_, _)
SumColumn(rows, col) ==
    IF rows = <<>> THEN QInt(0)
    ELSE QAdd(IF Head(rows)[col].nan THEN QInt(0) ELSE Head(rows)[col],
              SumColumn(Tail(rows), col))

GroupSum(rows, col, out) ==
    LET years == SortedInts(YearsOf(rows))
    IN  [k \in 1..Len(years) |->
           [year |-> years[k]] @@ (out :> SumColumn(OfYear(rows, years[k]), col))]

(***************************************************************************)
(* Home.py, lines 52-135: the sector rollup                                *)
(***************************************************************************)
IsBefore2025(r) == r.fiscal_year < 2025
IsElectric(r) == r.account_fuel = "Electric"
\* variant: a record without an account_fuel is in neither group
IsNotElectricM(r) == r.account_fuel \notin {"Electric", NA}

\* line 60: account_fuel != 'Electric', true of a missing account_fuel
IsNotElectric(r) == r.account_fuel # "Electric"

\* groupby('fiscal_year')['mtco2e'].sum().reset_index() with columns
\* ['year', out]
ByFiscalYear(rows, out) ==
    GroupSum([i \in 1..Len(rows) |->
                 [year |-> rows[i].fiscal_year, mtco2e |-> rows[i].mtco2e]],
             "mtco2e", out)

\* lines 52-65: the municipal series
H_Energy ==
    /\ active = "home"
    /\ home.pc = "energy"
    /\ LET kept == Filter(energy_df.rows, IsBefore2025)
       IN  home' = [home EXCEPT
                      !.pc = "sectors",
                      !.energy_df = kept,
                      !.energy_electric =
                          ByFiscalYear(Filter(kept, IsElectric), "electric_mtco2e"),
                      !.energy_other =
                          ByFiscalYear(Filter(kept, IsNotElectric),
                                       "other_fuels_mtco2e"),
                      !.energy_yearly =
                          ByFiscalYear(kept, "municipal_buildings_mtco2e")]
    /\ UNCHANGED <<pageVars, buildingVars, active, vehicles_csv, vehicle_factors_df,
                   energy_df, mass_save_data, lv>>

\* line 73: tCO2e per kWh
HOME_ELECTRIC_EMISSION_FACTOR == QDec(239, 6)

\* lines 74-78 and 82-86: the rows of one sector as ['year', out], with
\* Electric_MWh * 1000 * ELECTRIC_EMISSION_FACTOR
SectorElectric(rows, sector, out) ==
    LET of == SelectSeq(rows, LAMBDA r : r.Sector = sector)
    IN  [i \in 1..Len(of) |->
           [year |-> of[i].Year] @@
           (out :> QMul(QMul(of[i].Electric_MWh, QInt(1000)),
                        HOME_ELECTRIC_EMISSION_FACTOR))]

\* lines 67-86: fossil-fuel heating and the two electricity series
H_Sectors ==
    /\ active = "home"
    /\ home.pc = "sectors"
    /\ home' = [home EXCEPT
                  !.pc = "merge",
                  !.fossil_fuel_yearly =
                      [i \in 1..Len(ff.results) |->
                         [year |-> ff.results[i].year,
                          residential_fossil_fuel_mtco2e |->
                              ff.results[i].total_fossil_fuel_mtco2e]],
                  !.residential_electric_yearly =
                      SectorElectric(mass_save_data.rows, "Residential & Low-Income",
                                     "residential_electric_mtco2e"),
                  !.commercial_electric_yearly =
                      SectorElectric(mass_save_data.rows, "Commercial & Industrial",
                                     "commercial_electric_mtco2e")]
    /\ UNCHANGED <<pageVars, buildingVars, active, vehicles_csv, vehicle_factors_df,
                   energy_df, mass_save_data, lv>>

NaNColumn(col) == col :> NaN

\* lines 89-99: one outer merge, five left merges, sort, fillna(0), year >= 2019
MergeSources(h) ==
    LET m1 == OuterMerge(h.vehicles_yearly, h.energy_yearly,
                         NaNColumn("vehicles_tco2e"),
                         NaNColumn("municipal_buildings_mtco2e"))
        m2 == LeftMerge(m1, h.energy_electric, NaNColumn("electric_mtco2e"))
        m3 == LeftMerge(m2, h.energy_other, NaNColumn("other_fuels_mtco2e"))
        m4 == LeftMerge(m3, h.fossil_fuel_yearly,
                        NaNColumn("residential_fossil_fuel_mtco2e"))
        m5 == LeftMerge(m4, h.residential_electric_yearly,
                        NaNColumn("residential_electric_mtco2e"))
        m6 == LeftMerge(m5, h.commercial_electric_yearly,
                        NaNColumn("commercial_electric_mtco2e"))
    IN  FromYear(FillNa(SortYear(m6)), 2019)

H_Merge ==
    /\ active = "home"
    /\ home.pc = "merge"
    /\ home' = [home EXCEPT
                  !.pc = "fill",
                  !.combined_df = MergeSources(home)]
    /\ UNCHANGED <<pageVars, buildingVars, active, vehicles_csv, vehicle_factors_df,
                   energy_df, mass_save_data, lv>>

\* variant: the 2024 row takes every column of the 2023 row
ForwardFillM(rows) ==
    IF 2023 \notin YearsOf(rows) THEN rows
    ELSE LET row_2023 == OfYear(rows, 2023)[1]
         IN  IF 2024 \in YearsOf(rows)
             THEN [i \in 1..Len(rows) |->
                     IF rows[i].year = 2024
                     THEN [row_2023 EXCEPT !.year = 2024]
                     ELSE rows[i]]
             ELSE Append(rows, [row_2023 EXCEPT !.year = 2024])

\* lines 102-123: the 2024 row takes the three residential and commercial
\* columns of the 2023 row
ForwardFill(rows) ==
    IF 2023 \notin YearsOf(rows) THEN rows
    ELSE LET row_2023 == OfYear(rows, 2023)[1]
         IN  IF 2024 \in YearsOf(rows)
             THEN [i \in 1..Len(rows) |->
                     IF rows[i].year = 2024
                     THEN [rows[i] EXCEPT
                             !.residential_fossil_fuel_mtco2e =
                                 row_2023.residential_fossil_fuel_mtco2e,
                             !.residential_electric_mtco2e =
                                 row_2023.residential_electric_mtco2e,
                             !.commercial_electric_mtco2e =
                                 row_2023.commercial_electric_mtco2e]
                     ELSE rows[i]]
             ELSE Append(rows,
                         [year |-> 2024,
                          vehicles_tco2e |-> QInt(0),
                          municipal_buildings_mtco2e |-> QInt(0),
                          electric_mtco2e |-> QInt(0),
                          other_fuels_mtco2e |-> QInt(0),
                          residential_fossil_fuel_mtco2e |->
                              row_2023.residential_fossil_fuel_mtco2e,
                          residential_electric_mtco2e |->
                              row_2023.residential_electric_mtco2e,
                          commercial_electric_mtco2e |->
                              row_2023.commercial_electric_mtco2e])

H_ForwardFill ==
    /\ active = "home"
    /\ home.pc = "fill"
    /\ home' = [home EXCEPT !.pc = "total",
                            !.combined_df = ForwardFill(home.combined_df)]
    /\ UNCHANGED <<pageVars, buildingVars, active, vehicles_csv, vehicle_factors_df,
                   energy_df, mass_save_data, lv>>

\* variant: the municipal electric and other-fuel columns are added on top of
\* the municipal total
TotalTCo2eM(r) ==
    QAdd(QAdd(QAdd(QAdd(QAdd(QAdd(r.vehicles_tco2e, r.municipal_buildings_mtco2e),
                             r.electric_mtco2e),
                        r.other_fuels_mtco2e),
                   r.residential_fossil_fuel_mtco2e),
              r.residential_electric_mtco2e),
         r.commercial_electric_mtco2e)

\* lines 126-130
TotalTCo2e(r) ==
    QAdd(QAdd(QAdd(QAdd(r.vehicles_tco2e, r.municipal_buildings_mtco2e),
                   r.residential_fossil_fuel_mtco2e),
              r.residential_electric_mtco2e),
         r.commercial_electric_mtco2e)

H_Total ==
    /\ active = "home"
    /\ home.pc = "total"
    /\ home' = [home EXCEPT
                  !.pc = "metrics",
                  !.combined_df =
                      [i \in 1..Len(@) |-> @[i] @@ [total_tco2e |-> TotalTCo2e(@[i])]]]
    /\ UNCHANGED <<pageVars, buildingVars, active, vehicles_csv, vehicle_factors_df,
                   energy_df, mass_save_data, lv>>

\* lines 133-135: the most recent year and the year before it; .iloc[0] of
\* an empty selection raises IndexError
H_Metrics ==
    /\ active = "home"
    /\ home.pc = "metrics"
    /\ LET years == YearsOf(home.combined_df)
       IN  IF years = {}
           THEN home' = [home EXCEPT !.pc = "raised",
                                     !.ret = "IndexError at line 134"]
           ELSE LET most_recent_year == CHOOSE y \in years : \A z \in years : z <= y
                IN  IF most_recent_year - 1 \notin years
                    THEN home' = [home EXCEPT !.pc = "raised",
                                              !.ret = "IndexError at line 135"]
                    ELSE home' = [home EXCEPT !.pc = "done", !.ret = "page"]
    /\ active' = "none"
    /\ UNCHANGED <<pageVars, buildingVars, vehicles_csv, vehicle_factors_df,
                   energy_df, mass_save_data, lv>>

MaxRuns == 2

\* the script runs again from the top (every interaction with the page reruns
\* it); the tables of the run before are kept for comparison
H_Rerun ==
    /\ active = "none"
    /\ home.pc \in {"done", "raised"}
    /\ home.ret # "none"
    /\ home.run < MaxRuns
    /\ home' = [HomeIdle EXCEPT !.run = home.run + 1,
                                !.first_loaded = home.first_loaded,
                                !.first_combined_df = home.combined_df]
    /\ UNCHANGED <<pageVars, buildingVars, active, vehicles_csv, vehicle_factors_df,
                   energy_df, mass_save_data, lv>>

(***************************************************************************)
(* pages/2_Vehicles.py                                                     *)
(***************************************************************************)
\* rollups_before is a history field: the runs of the Home rollup that had
\* ended when the page was loaded
VpIdle == [pc |-> "idle", ret |-> "none", df |-> <<>>,
           most_recent_date |-> <<>>, previous_date |-> <<>>,
           pivot_df |-> <<>>, pivot_emissions_df |-> <<>>, rollups_before |-> 0]

\* the months since year 0 of a quarter date
DateKey(d) == (d.year * 12) + d.month

\* df.sort_values('Quarter_Date')
RECURSIVE SortQuarterDate(_)
SortQuarterDate(rows) ==
    IF rows = <<>> THEN <<>>
    ELSE LET keys == {DateKey(rows[i].Quarter_Date) : i \in 1..Len(rows)}
             m == CHOOSE k \in keys : \A j \in keys : k <= j
         IN  SelectSeq(rows, LAMBDA r : DateKey(r.Quarter_Date) = m)
             \o SortQuarterDate(SelectSeq(rows, LAMBDA r : DateKey(r.Quarter_Date) # m))

\* Series.max() of the dates with a key in keys: <<>> for NaT
MaxDate(rows, keys) ==
    IF keys = {} THEN <<>>
    ELSE LET m == CHOOSE k \in keys : \A j \in keys : j <= k
         IN  <<(CHOOSE i \in 1..Len(rows) : DateKey(rows[i].Quarter_Date) = m)>>

\* lines 8-22: load_data() (data_loader.py 570-574) hands out a copy of the
\* table of load_vehicle_data; the page adds Quarter_Date to it and sorts it
V_Load ==
    /\ active = "none"
    /\ vp.pc = "idle"
    /\ lv.pc = "done"
    /\ IF lv.ret = "None"
       THEN vp' = [vp EXCEPT !.pc = "done", !.ret = "nothing"]
       ELSE LET dated == [i \in 1..Len(lv.vehicles_df) |->
                            lv.vehicles_df[i] @@
                            [Quarter_Date |-> lv.vehicles_df[i].Quarter]]
                df == SortQuarterDate(dated)
                keys == {DateKey(df[i].Quarter_Date) : i \in 1..Len(df)}
                most_recent_date == MaxDate(df, keys)
                previous_date ==
                    MaxDate(df, {k \in keys :
                                    k < DateKey(df[most_recent_date[1]].Quarter_Date)})
            IN  vp' = [vp EXCEPT
                         !.pc = "charts",
                         !.df = df,
                         !.most_recent_date =
                             IF most_recent_date = <<>> THEN <<>>
                             ELSE <<df[most_recent_date[1]].Quarter_Date>>,
                         !.previous_date =
                             IF previous_date = <<>> THEN <<>>
                             ELSE <<df[previous_date[1]].Quarter_Date>>,
                         !.rollups_before =
                             IF home.pc \in {"done", "raised"} THEN home.run
                             ELSE home.run - 1]
    /\ active' = IF vp'.pc = "charts" THEN "vp" ELSE "none"
    /\ UNCHANGED <<buildingVars, vehicleVars, solar_csv, sv, energy_sheet, me, rp>>

\* variant: the standalone report applies the rollup's adjustment
EmissionCellM(r) ==
    [Quarter_Date |-> r.Quarter_Date, Type |-> r.Type,
     value |-> IF r.Type = "Battery Electric" THEN QInt(0)
               ELSE IF r.Type = "Plug-in Hybrid" THEN QMul(r.tCo2e, QDec(5, 1))
               ELSE r.tCo2e]

\* lines 85-90: one cell of pivot(index='Quarter_Date', columns='Type',
\* values='tCo2e')
EmissionCell(r) ==
    [Quarter_Date |-> r.Quarter_Date, Type |-> r.Type, value |-> r.tCo2e]

\* line 53: one cell of pivot(..., values='Number')
NumberCell(r) ==
    [Quarter_Date |-> r.Quarter_Date, Type |-> r.Type, value |-> r.Number]

\* DataFrame.pivot raises ValueError when two rows have the same index and
\* column
HasDuplicateCell(rows) ==
    \E i, j \in 1..Len(rows) :
        /\ i # j
        /\ rows[i].Quarter_Date = rows[j].Quarter_Date
        /\ rows[i].Type = rows[j].Type

\* lines 41-90: the multiselect (any subset of the types) and the two pivots
V_Charts ==
    /\ active = "vp"
    /\ vp.pc = "charts"
    /\ \E selected_types \in SUBSET {vp.df[i].Type : i \in 1..Len(vp.df)} :
          LET filtered_df == SelectSeq(vp.df, LAMBDA r : r.Type \in selected_types)
          IN  IF selected_types = {}
              THEN vp' = [vp EXCEPT !.pc = "done", !.ret = "warning"]
              ELSE IF HasDuplicateCell(filtered_df)
              THEN vp' = [vp EXCEPT !.pc = "raised", !.ret = "ValueError at line 53"]
              ELSE vp' = [vp EXCEPT
                            !.pc = "done", !.ret = "page",
                            !.pivot_df =
                                [i \in 1..Len(filtered_df) |-> NumberCell(filtered_df[i])],
                            !.pivot_emissions_df =
                                [i \in 1..Len(filtered_df) |->
                                   EmissionCell(filtered_df[i])]]
    /\ active' = "none"
    /\ UNCHANGED <<buildingVars, vehicleVars, solar_csv, sv, energy_sheet, me, rp>>

(***************************************************************************)
(* pages/4_Residential_Energy.py, lines 338-346 and 381-388                *)
(***************************************************************************)
RpIdle == [pc |-> "idle",
           total_emissions |-> QInt(0), residential_emissions |-> QInt(0),
           commercial_emissions |-> QInt(0), motel_emissions |-> QInt(0),
           properties |-> <<0, 0, 0, 0>>]

IsResidentialRow(r) == r.is_residential
IsCommercialRow(r) == r.is_commercial
IsMotelResortRow(r) == r.is_motel_resort

\* the totals of the table calculate_residential_emissions returned (line
\* 338): the emission sums of lines 343-346 and the Properties column of the
\* breakdown table, lines 383-388
RP_Totals ==
    /\ active = "none"
    /\ rp.pc = "idle"
    /\ re.pc = "done"
    /\ re.ret = "df_calc"
    /\ LET df_emissions == re.df_calc
       IN  rp' = [rp EXCEPT
                    !.pc = "done",
                    !.total_emissions = SumColumn(df_emissions, "mtco2e"),
                    !.residential_emissions =
                        SumColumn(Filter(df_emissions, IsResidentialRow), "mtco2e"),
                    !.commercial_emissions =
                        SumColumn(Filter(df_emissions, IsCommercialRow), "mtco2e"),
                    !.motel_emissions =
                        SumColumn(Filter(df_emissions, IsMotelResortRow), "mtco2e"),
                    !.properties =
                        << Len(Filter(df_emissions, IsResidentialRow)),
                           Len(Filter(df_emissions, IsCommercialRow)),
                           Len(Filter(df_emissions, IsMotelResortRow)),
                           Len(df_emissions) >>]
    /\ UNCHANGED <<buildingVars, vehicleVars, active, solar_csv, sv, energy_sheet,
                   me, vp>>

(***************************************************************************)
(* pages/1_Municipal_Energy.py                                             *)
(***************************************************************************)
MeIdle == [pc |-> "idle", ret |-> "none", df |-> <<>>,
           most_recent_year |-> <<>>, previous_year |-> <<>>,
           current_mtco2e |-> QInt(0), current_mmbtu |-> QInt(0),
           current_cost |-> QInt(0), previous_mtco2e |-> QInt(0),
           previous_mmbtu |-> QInt(0), previous_cost |-> QInt(0),
           filtered_df |-> <<>>, yearly_emissions |-> <<>>,
           yearly_energy |-> <<>>, yearly_cost |-> <<>>]

\* df.sort_values('usage_end_date')
RECURSIVE SortUsageEnd(_)
SortUsageEnd(rows) ==
    IF rows = <<>> THEN <<>>
    ELSE LET ends == {rows[i].usage_end : i \in 1..Len(rows)}
             m == CHOOSE d \in ends : \A e \in ends : d <= e
         IN  SelectSeq(rows, LAMBDA r : r.usage_end = m)
             \o SortUsageEnd(SelectSeq(rows, LAMBDA r : r.usage_end # m))

\* lines 26-40: the load, the guard and the sort; a year cell is <<>> for NaN
ME_Load ==
    /\ active = "none"
    /\ me.pc = "idle"
    /\ IF energy_sheet.isNone
       THEN me' = [me EXCEPT !.pc = "error"]
       ELSE me' = [me EXCEPT !.pc = "recent", !.df = SortUsageEnd(energy_sheet.rows)]
    /\ active' = IF me'.pc = "recent" THEN "me" ELSE "none"
    /\ UNCHANGED <<buildingVars, vehicleVars, solar_csv, sv, energy_sheet, vp, rp>>

\* Series.max(): NaN for no value
MaxYear(years) ==
    IF years = {} THEN <<>> ELSE <<CHOOSE y \in years : \A z \in years : z <= y>>

FiscalYears(rows) == {rows[i].fiscal_year : i \in 1..Len(rows)}

\* df[df['fiscal_year'] == year]; no row equals NaN
OfFiscalYear(rows, cell) ==
    SelectSeq(rows, LAMBDA r : cell # <<>> /\ r.fiscal_year = cell[1])

\* lines 42-58: the most recent fiscal year, the one before it, their totals
ME_Recent ==
    /\ active = "me"
    /\ me.pc = "recent"
    /\ LET most_recent_year == MaxYear(FiscalYears(me.df))
           previous_year ==
               MaxYear({y \in FiscalYears(me.df) :
                           most_recent_year # <<>> /\ y < most_recent_year[1]})
           current_year_data == OfFiscalYear(me.df, most_recent_year)
           previous_year_data == OfFiscalYear(me.df, previous_year)
       IN  me' = [me EXCEPT
                    !.pc = "metrics",
                    !.most_recent_year = most_recent_year,
                    !.previous_year = previous_year,
                    !.current_mtco2e = SumColumn(current_year_data, "mtco2e"),
                    !.current_mmbtu = SumColumn(current_year_data, "mmbtu"),
                    !.current_cost = SumColumn(current_year_data, "cost"),
                    !.previous_mtco2e = SumColumn(previous_year_data, "mtco2e"),
                    !.previous_mmbtu = SumColumn(previous_year_data, "mmbtu"),
                    !.previous_cost = SumColumn(previous_year_data, "cost")]
    /\ UNCHANGED <<buildingVars, vehicleVars, active, solar_csv, sv, energy_sheet, vp, rp>>

\* lines 60-83: int(most_recent_year) and int(previous_year) in the labels;
\* int(NaN) raises ValueError
ME_Metrics ==
    /\ active = "me"
    /\ me.pc = "metrics"
    /\ IF me.most_recent_year = <<>>
       THEN /\ me' = [me EXCEPT !.pc = "raised", !.ret = "ValueError at line 61"]
            /\ active' = "none"
       ELSE IF me.previous_year = <<>>
       THEN /\ me' = [me EXCEPT !.pc = "raised", !.ret = "ValueError at line 68"]
            /\ active' = "none"
       ELSE /\ me' = [me EXCEPT !.pc = "filters"]
            /\ UNCHANGED active
    /\ UNCHANGED <<buildingVars, vehicleVars, solar_csv, sv, energy_sheet, vp, rp>>

\* lines 85-111: the two multiselects (any subset of the values of the
\* column) and the filtered table
ME_Filter ==
    /\ active = "me"
    /\ me.pc = "filters"
    /\ \E selected_categories \in
            SUBSET {me.df[i].facility_category : i \in 1..Len(me.df)},
          selected_fuel_types \in
            SUBSET {me.df[i].account_fuel : i \in 1..Len(me.df)} :
          me' = [me EXCEPT
                   !.pc = "yearly",
                   !.filtered_df =
                       SelectSeq(me.df,
                                 LAMBDA r : /\ r.facility_category \in selected_categories
                                            /\ r.account_fuel \in selected_fuel_types)]
    /\ UNCHANGED <<buildingVars, vehicleVars, active, solar_csv, sv, energy_sheet, vp, rp>>

\* groupby('fiscal_year')[col].sum().reset_index(); the year is in field year
YearlySum(rows, col) ==
    GroupSum([i \in 1..Len(rows) |->
                 [year |-> rows[i].fiscal_year] @@ (col :> rows[i][col])],
             col, col)

\* lines 113-117: the yearly aggregation of the filtered table
ME_Yearly ==
    /\ active = "me"
    /\ me.pc = "yearly"
    /\ IF Len(me.filtered_df) > 0
       THEN me' = [me EXCEPT !.pc = "done", !.ret = "page",
                             !.yearly_emissions = YearlySum(me.filtered_df, "mtco2e"),
                             !.yearly_energy = YearlySum(me.filtered_df, "mmbtu"),
                             !.yearly_cost = YearlySum(me.filtered_df, "cost")]
       ELSE me' = [me EXCEPT !.pc = "done", !.ret = "no data"]
    /\ active' = "none"
    /\ UNCHANGED <<buildingVars, vehicleVars, solar_csv, sv, energy_sheet, vp, rp>>

(***************************************************************************)
(* pages/6_Annual_Savings.py                                               *)
(***************************************************************************)
SOLAR_CAPACITY_FACTOR == QDec(12, 1)
ELECTRICITY_EMISSION_FACTOR == QDec(239, 3)
BEV_SAVINGS_PER_VEHICLE == QDec(344, 2)
PHEV_SAVINGS_PER_VEHICLE == QDec(172, 2)

SvIdle == [pc |-> "idle", ret |-> "none", solar_df |-> <<>>, vehicles_df |-> <<>>,
           solar_savings |-> <<>>, heat_pump_savings |-> <<>>,
           ev_savings |-> <<>>, combined_savings |-> <<>>]

\* load_solar_data, lines 18-24
IsTruroWithCapacity(r) == r.City = "Truro" /\ QGt(r.Capacity, QInt(0))

\* line 31
SavingsInputsPresent(vehicles_ret, fossil_fuel_ret) ==
    vehicles_ret # "None" /\ fossil_fuel_ret # "None"

\* lines 16-32: the three loads and the guard on them
SV_Load ==
    /\ active = "none"
    /\ sv.pc = "idle"
    /\ lv.pc = "done"
    /\ ff.pc \in {"done", "raised"}
    /\ IF ff.pc = "raised"
       THEN sv' = [sv EXCEPT !.pc = "raised", !.ret = ff.ret]
       ELSE IF ~SavingsInputsPresent(lv.ret, ff.ret)
       THEN sv' = [sv EXCEPT !.pc = "error"]
       ELSE sv' = [sv EXCEPT !.pc = "solar",
                             !.solar_df = Filter(solar_csv.rows, IsTruroWithCapacity),
                             !.vehicles_df = lv.vehicles_df]
    /\ active' = IF sv'.pc = "solar" THEN "sv" ELSE "none"
    /\ UNCHANGED <<buildingVars, vehicleVars, solar_csv, energy_sheet, me, vp, rp>>

\* variant: the 2019 capacity is not taken off
SolarRowM(r, baseline_2019_capacity) ==
    LET annual_mwh == QMul(r.Capacity, SOLAR_CAPACITY_FACTOR)
    IN  [year |-> r.Year,
         capacity_kw_dc_cumulative |-> r.Capacity,
         capacity_kw_dc |-> r.Capacity,
         annual_mwh |-> annual_mwh,
         solar_savings_mtco2e |-> QMul(annual_mwh, ELECTRICITY_EMISSION_FACTOR)]

\* lines 50, 53, 54 for one row
SolarRow(r, baseline_2019_capacity) ==
    LET capacity_kw_dc == QSub(r.Capacity, baseline_2019_capacity)
        annual_mwh == QMul(capacity_kw_dc, SOLAR_CAPACITY_FACTOR)
    IN  [year |-> r.Year,
         capacity_kw_dc_cumulative |-> r.Capacity,
         capacity_kw_dc |-> capacity_kw_dc,
         annual_mwh |-> annual_mwh,
         solar_savings_mtco2e |-> QMul(annual_mwh, ELECTRICITY_EMISSION_FACTOR)]

\* lines 38-54: .values[0] of the 2019 rows raises IndexError when the table
\* has rows from 2019 on but none of 2019
SV_Solar ==
    /\ active = "sv"
    /\ sv.pc = "solar"
    /\ LET kept == SelectSeq(sv.solar_df, LAMBDA r : r.Year >= 2019)
           rows2019 == SelectSeq(kept, LAMBDA r : r.Year = 2019)
       IN  IF Len(kept) > 0 /\ rows2019 = <<>>
           THEN /\ sv' = [sv EXCEPT !.pc = "raised", !.ret = "IndexError at line 47"]
                /\ active' = "none"
           ELSE /\ sv' = [sv EXCEPT
                            !.pc = "heat_pump",
                            !.solar_savings =
                                [i \in 1..Len(kept) |->
                                    SolarRow(kept[i], rows2019[1].Capacity)]]
                /\ UNCHANGED active
    /\ UNCHANGED <<buildingVars, vehicleVars, solar_csv, energy_sheet, me, vp, rp>>

\* lines 60-65
SV_HeatPump ==
    /\ active = "sv"
    /\ sv.pc = "heat_pump"
    /\ LET kept == FromYear(ff.results, 2019)
       IN  sv' = [sv EXCEPT
                    !.pc = "vehicles",
                    !.heat_pump_savings =
                        [i \in 1..Len(kept) |->
                            [year |-> kept[i].year,
                             propane_mtco2e_eliminated |->
                                 kept[i].propane_mtco2e_eliminated,
                             cumulative_conversions |->
                                 QInt(kept[i].cumulative_conversions),
                             incremental_savings |->
                                 IF i = 1 THEN kept[1].propane_mtco2e_eliminated
                                 ELSE LET d == QSub(kept[i].propane_mtco2e_eliminated,
                                                    kept[i - 1].propane_mtco2e_eliminated)
                                      IN  IF d.nan
                                          THEN kept[1].propane_mtco2e_eliminated
                                          ELSE d]]]
    /\ UNCHANGED <<buildingVars, vehicleVars, active, solar_csv, energy_sheet, me, vp, rp>>

\* lines 81-85: groupby('year')['Number'].sum() of the rows of one type
EvTypeCount(ev_data, type, out) ==
    LET rows == SelectSeq(ev_data, LAMBDA r : r.Type = type)
    IN  GroupSum([i \in 1..Len(rows) |-> rows[i] @@ [Count |-> QInt(rows[i].Number)]],
                 "Count", out)

\* lines 96-98
EvSavingsRow(r) ==
    LET bev == QMul(r.bev_count, BEV_SAVINGS_PER_VEHICLE)
        phev == QMul(r.phev_count, PHEV_SAVINGS_PER_VEHICLE)
    IN  r @@ [bev_savings_mtco2e |-> bev,
              phev_savings_mtco2e |-> phev,
              total_ev_savings_mtco2e |-> QAdd(bev, phev)]

\* lines 71-98
SV_Vehicles ==
    /\ active = "sv"
    /\ sv.pc = "vehicles"
    /\ LET dated == [i \in 1..Len(sv.vehicles_df) |->
                       sv.vehicles_df[i] @@
                       [Quarter_Date |-> sv.vehicles_df[i].Quarter,
                        Month |-> sv.vehicles_df[i].Quarter.month]]
           q1 == Filter(dated, IsJanuary)
           vehicles_q1 == [i \in 1..Len(q1) |->
                              q1[i] @@ [year |-> q1[i].Quarter_Date.year - 1]]
           ev_data == FromYear(vehicles_q1, 2019)
           bev_yearly == EvTypeCount(ev_data, "Battery Electric", "bev_count")
           phev_yearly == EvTypeCount(ev_data, "Plug-in Hybrid", "phev_count")
           merged == FillNa(OuterMerge(bev_yearly, phev_yearly,
                                       [bev_count |-> NaN], [phev_count |-> NaN]))
       IN  sv' = [sv EXCEPT
                    !.pc = "combined",
                    !.vehicles_df = dated,
                    !.ev_savings = [i \in 1..Len(merged) |-> EvSavingsRow(merged[i])]]
    /\ UNCHANGED <<buildingVars, vehicleVars, active, solar_csv, energy_sheet, me, vp, rp>>

\* variant: the solar track is left out of the total
TotalAnnualSavingsM(r) ==
    QAdd(r.propane_mtco2e_eliminated, r.total_ev_savings_mtco2e)

\* lines 110-112
TotalAnnualSavings(r) ==
    QAdd(QAdd(r.propane_mtco2e_eliminated, r.total_ev_savings_mtco2e),
         r.solar_savings_mtco2e)

\* lines 104-112
SV_Combined ==
    /\ active = "sv"
    /\ sv.pc = "combined"
    /\ LET solar == [i \in 1..Len(sv.solar_savings) |->
                       [year |-> sv.solar_savings[i].year,
                        solar_savings_mtco2e |-> sv.solar_savings[i].solar_savings_mtco2e,
                        annual_mwh |-> sv.solar_savings[i].annual_mwh,
                        capacity_kw_dc |-> sv.solar_savings[i].capacity_kw_dc]]
           hp_ev == FillNa(OuterMerge(sv.heat_pump_savings, sv.ev_savings,
                                      [propane_mtco2e_eliminated |-> NaN,
                                       cumulative_conversions |-> NaN,
                                       incremental_savings |-> NaN],
                                      [bev_count |-> NaN, phev_count |-> NaN,
                                       bev_savings_mtco2e |-> NaN,
                                       phev_savings_mtco2e |-> NaN,
                                       total_ev_savings_mtco2e |-> NaN]))
           all == SortYear(FillNa(OuterMerge(hp_ev, solar,
                                      [propane_mtco2e_eliminated |-> NaN,
                                       cumulative_conversions |-> NaN,
                                       incremental_savings |-> NaN,
                                       bev_count |-> NaN, phev_count |-> NaN,
                                       bev_savings_mtco2e |-> NaN,
                                       phev_savings_mtco2e |-> NaN,
                                       total_ev_savings_mtco2e |-> NaN],
                                      [solar_savings_mtco2e |-> NaN,
                                       annual_mwh |-> NaN,
                                       capacity_kw_dc |-> NaN])))
       IN  sv' = [sv EXCEPT
                    !.pc = "summary",
                    !.combined_savings =
                        [i \in 1..Len(all) |->
                            all[i] @@ [total_annual_savings |-> TotalAnnualSavings(all[i])]]]
    /\ UNCHANGED <<buildingVars, vehicleVars, active, solar_csv, energy_sheet, me, vp, rp>>

\* lines 118-122: .iloc[0] of the 2023 and of the 2019 rows
SV_Summary ==
    /\ active = "sv"
    /\ sv.pc = "summary"
    /\ IF OfYear(sv.combined_savings, 2023) = <<>>
          \/ OfYear(sv.combined_savings, 2019) = <<>>
       THEN sv' = [sv EXCEPT !.pc = "raised", !.ret = "IndexError at line 121"]
       ELSE sv' = [sv EXCEPT !.pc = "done", !.ret = "page"]
    /\ active' = "none"
    /\ UNCHANGED <<buildingVars, vehicleVars, solar_csv, energy_sheet, me, vp, rp>>

(***************************************************************************)
(* Inputs.                                                                 *)
(***************************************************************************)
MaxProperties == 3
MaxTrackerRows == 2
MaxLocations == 3
MaxVehicleRows == 3

HEAT_PUMP_AC == HEAT_PUMP \o <<"/", "A", "C">>
Heat_Pump_Mixed == <<"H", "e", "a", "t", " ", "P", "u", "m", "p">>
FORCED_AIR == <<"F", "O", "R", "C", "E", "D", " ", "A", "I", "R">>
ELECTRIC_BB == <<"E", "L", "E", "C", "T", "R", "I", "C">>

Property(type, sf, fuel, hvac, class) ==
    [PropertyType |-> type, NetSF |-> sf, FUEL |-> fuel, HVAC |-> hvac,
     StateClassDesc |-> class]

\* the assessor records the tables are drawn from
Properties ==
    << Property("R", <<1200>>, "GAS", FORCED_AIR, "SINGLE FAM MDL-01"),
       Property("R", <<2000>>, "GAS", HEAT_PUMP, NA),
       Property("R", <<1600>>, "GAS", NA_STR, "SINGLE FAM MDL-01"),
       Property("R", <<1500>>, "OIL", FORCED_AIR, "SINGLE FAM MDL-01"),
       Property("R", <<1800>>, "ELECTRIC", HEAT_PUMP_AC, "CONDO MDL-05"),
       Property("R", <<3000>>, "GAS", FORCED_AIR, "MOTELS"),
       Property("R", <<2500>>, "ELECTRIC", HEAT_PUMP, "RESTAURANTS"),
       Property("E", <<4000>>, "GAS", Heat_Pump_Mixed, "MUNICIPAL MDL-94"),
       Property("R", <<>>, "GAS", HEAT_PUMP, "SINGLE FAM MDL-01"),
       Property("R", <<0>>, "OIL", FORCED_AIR, "SINGLE FAM MDL-01"),
       Property("R", <<-1>>, "GAS", NA_STR, "SINGLE FAM MDL-01"),
       Property("R", <<900>>, "WOOD", FORCED_AIR, "SINGLE FAM MDL-01"),
       Property("R", <<1000>>, NA, ELECTRIC_BB, "SMALL RETAIL") >>

\* the rows of universe at the indices I, in file order, each with its row id
SubTable(universe, I) ==
    LET idx == SortedInts(I)
    IN  [k \in 1..Len(idx) |-> universe[idx[k]] @@ [id |-> idx[k]]]

TablesOf(universe, max) ==
    {Table(SubTable(universe, I)) :
        I \in {J \in SUBSET (1..Len(universe)) : Cardinality(J) <= max}}

AssessorTables == TablesOf(Properties, MaxProperties)

\* tracker tables of the given years: one row per year, in any row order
TrackerTablesOf(years) ==
    UNION {
      {Table([i \in 1..n |-> [Year |-> y[i], Locations |-> l[i]]]) :
          y \in {f \in [1..n -> years] :
                    \A i, j \in 1..n : i # j => f[i] # f[j]},
          l \in [1..n -> 0..MaxLocations]} :
      n \in 0..MaxTrackerRows}

\* trackers that may start in the interpolated year
FirstYearTables == TrackerTablesOf({2020, 2021, 2022})

TrackerYears == {2021, 2022, 2023}

\* tracker tables: one row per year, in any row order
TrackerTables ==
    UNION {
      {Table([i \in 1..n |-> [Year |-> y[i], Locations |-> l[i]]]) :
          y \in {f \in [1..n -> TrackerYears] :
                    \A i, j \in 1..n : i # j => f[i] # f[j]},
          l \in [1..n -> 0..MaxLocations]} :
      n \in 0..MaxTrackerRows}

\* the tracker of the runs that vary the assessor table: two years out of
\* order, the earlier one below the 2019 count of most tables
TrackerExample ==
    Table(<<[Year |-> 2022, Locations |-> 3], [Year |-> 2021, Locations |-> 0]>>)

\* a few assessor tables for the runs that vary the tracker
FewAssessors ==
    {None,
     Table(SubTable(Properties, {4, 8})),
     Table(SubTable(Properties, {1, 2, 3, 4, 6})),
     Table(SubTable(Properties, {1, 2, 5, 7, 8, 9}))}

MaxSolarRows == 3

SolarRecord(year, city, capacity) ==
    [Year |-> year, City |-> city, Capacity |-> QInt(capacity)]

\* the rows of data/solar_data.csv the tables are drawn from: one per city and
\* year, cumulative capacity in kW DC
SolarRows ==
    << SolarRecord(2018, "Truro", 50),
       SolarRecord(2019, "Truro", 100),
       SolarRecord(2021, "Truro", 250),
       SolarRecord(2023, "Truro", 400),
       SolarRecord(2019, "Wellfleet", 70),
       SolarRecord(2020, "Truro", 0) >>

SolarTables == TablesOf(SolarRows, MaxSolarRows)

MaxBillingRows == 2

BillingRecord(fiscal_year, account_fuel, mtco2e) ==
    [fiscal_year |-> fiscal_year, account_fuel |-> account_fuel,
     mtco2e |-> QInt(mtco2e)]

\* the rows of data/municipal_energy.csv the tables are drawn from
BillingRows ==
    << BillingRecord(2019, "Electric", 10),
       BillingRecord(2019, "Propane", 5),
       BillingRecord(2023, "Electric", 7),
       BillingRecord(2024, NA, 3),
       BillingRecord(2025, "Electric", 9),
       BillingRecord(2018, "Oil", 4) >>

BillingTables == TablesOf(BillingRows, MaxBillingRows)

MaxSheetRows == 3

SheetRecord(fiscal_year, facility_category, account_fuel, mtco2e, usage_end) ==
    [fiscal_year |-> fiscal_year, facility_category |-> facility_category,
     account_fuel |-> account_fuel, mtco2e |-> QInt(mtco2e),
     mmbtu |-> QInt(10 * mtco2e), cost |-> QInt(100 * mtco2e),
     usage_end |-> usage_end]

\* the rows of the Municipal Energy sheet the tables are drawn from;
\* usage_end is the number of the billing period
SheetRows ==
    << SheetRecord(2023, "Town Hall", "Electric", 10, 3),
       SheetRecord(2024, "Town Hall", "Oil", 20, 4),
       SheetRecord(2025, "School", "Electric", 5, 6),
       SheetRecord(2008, "School", "Oil", 7, 1),
       SheetRecord(2024, "School", "Electric", 8, 5) >>

SheetTables == TablesOf(SheetRows, MaxSheetRows)

UsageRecord(year, sector, mwh) ==
    [Year |-> year, Sector |-> sector, Electric_MWh |-> QInt(mwh)]

\* the rows of the Mass Save reports the tables are drawn from: one per
\* sector and year
UsageRows ==
    << UsageRecord(2019, "Residential & Low-Income", 100),
       UsageRecord(2019, "Commercial & Industrial", 50),
       UsageRecord(2023, "Residential & Low-Income", 120),
       UsageRecord(2023, "Commercial & Industrial", 60),
       UsageRecord(2021, "Residential & Low-Income", 110),
       UsageRecord(2024, "Commercial & Industrial", 70),
       UsageRecord(2023, "Total", 180) >>

UsageTables ==
    {Table(SubTable(UsageRows, I)) : I \in {{1, 2, 3, 4, 7}, {5}, {3, 6}}}

FactorRow(type, miles, mpg, mpkwh) ==
    [Type |-> type, Miles |-> miles, MPgal |-> mpg, MPkwh |-> mpkwh]

FactorRows ==
    << FactorRow("Diesel", 12000, <<25>>, <<>>),
       FactorRow("Gasoline", 10000, <<22>>, <<>>),
       FactorRow("Battery Electric", 10000, <<>>, <<3>>),
       FactorRow("Plug-in Hybrid", 10000, <<40>>, <<3>>),
       FactorRow("Motorcycle Gasoline", 3000, <<50>>, <<>>),
       FactorRow("", 5000, <<20>>, <<>>),
       FactorRow(NA, 5000, <<20>>, <<>>),
       FactorRow("Hybrid Electric", 10000, <<0>>, <<0>>) >>

VehicleRow(type, year, month, number) ==
    [Type |-> type, Quarter |-> [year |-> year, month |-> month], Number |-> number]

VehicleRows ==
    << VehicleRow("Diesel", 2020, 1, 10),
       VehicleRow("Battery Electric", 2020, 1, 5),
       VehicleRow("Plug-in Hybrid", 2020, 1, 5),
       VehicleRow("Gasoline", 2021, 1, 100),
       VehicleRow("Fuel Cell", 2020, 1, 7),
       VehicleRow("Diesel", 2020, 4, 10),
       VehicleRow(NA, 2021, 1, 3),
       VehicleRow("Plug-in Hybrid", 2021, 1, 4) >>

\* factor files: none, one type, the fuel types, the electric and blank rows, all
FactorTables ==
    {Table(SubTable(FactorRows, I)) :
        I \in {{}, {1}, {1, 2, 5}, {3, 4, 6, 7, 8}, 1..8}}
VehicleTables == TablesOf(VehicleRows, MaxVehicleRows)

\* the rows of data/TruroVehicles.csv the rollup is run on: the counts of
\* January 2019, 2020, 2024, 2025 and 2026
RollupVehicleRows ==
    << VehicleRow("Gasoline", 2019, 1, 90),
       VehicleRow("Diesel", 2020, 1, 10),
       VehicleRow("Plug-in Hybrid", 2024, 1, 4),
       VehicleRow("Gasoline", 2025, 1, 100),
       VehicleRow("Diesel", 2026, 1, 10) >>

RollupVehicleTables ==
    {Table(SubTable(RollupVehicleRows, I)) :
        I \in {{1, 2}, {2, 3}, {2, 3, 4}, {3, 5}}}

(***************************************************************************)
(* Specifications.                                                         *)
(***************************************************************************)
NoVehicles ==
    /\ vehicles_csv = None
    /\ vehicle_factors_df = None
    /\ energy_df = None
    /\ mass_save_data = None
    /\ lv = LvIdle
    /\ home = HomeIdle

NoPages ==
    /\ solar_csv = Table(<<>>)
    /\ sv = SvIdle
    /\ vp = VpIdle
    /\ rp = RpIdle
    /\ energy_sheet = None
    /\ me = MeIdle

Frames ==
    /\ active = "none"
    /\ pd = PdIdle
    /\ ff = FfIdle
    /\ re = ReIdle

\* the building estimators on any assessor table
InitBuildings ==
    /\ assessors_df \in AssessorTables \cup {None}
    /\ heat_pump_df = TrackerExample
    /\ Frames
    /\ NoVehicles
    /\ NoPages

\* the displacement tracker on any tracker table
InitTracker ==
    /\ assessors_df \in FewAssessors
    /\ heat_pump_df \in TrackerTables \cup {None}
    /\ Frames
    /\ NoVehicles
    /\ NoPages

NextBuildings ==
    \/ PD_Load \/ PD_Baseline \/ PD_Row2019 \/ PD_Row2020 \/ PD_RowTracked \/ PD_Return
    \/ FF_Load \/ FF_Baseline \/ FF_Row2019 \/ FF_Row2020 \/ FF_RowTracked \/ FF_Return
    \/ RE_Filter \/ RE_Classify \/ RE_Seasonal \/ RE_Emissions
    \/ RP_Totals

SpecBuildings == InitBuildings /\ [][NextBuildings]_vars

NextTracker ==
    \/ PD_Load \/ PD_Baseline \/ PD_Row2019 \/ PD_Row2020 \/ PD_RowTracked \/ PD_Return
    \/ FF_Load \/ FF_Baseline \/ FF_Row2019 \/ FF_Row2020 \/ FF_RowTracked \/ FF_Return

SpecTracker == InitTracker /\ [][NextTracker]_vars

\* the two tracker functions on trackers whose first year is 2020 or later
InitFirstYear ==
    /\ assessors_df \in {Table(SubTable(Properties, {1, 2, 3, 4, 6})),
                         Table(SubTable(Properties, {1, 2, 5, 7, 8, 9}))}
    /\ heat_pump_df \in FirstYearTables
    /\ Frames
    /\ NoVehicles
    /\ NoPages

SpecFirstYear == InitFirstYear /\ [][NextTracker]_vars

\* the vehicle loader and the vehicle part of the Home rollup
InitVehicles ==
    /\ vehicles_csv \in VehicleTables \cup {None}
    /\ vehicle_factors_df \in FactorTables
    /\ energy_df = Table(<<>>)
    /\ mass_save_data = Table(<<>>)
    /\ assessors_df = Table(SubTable(Properties, {1, 4}))
    /\ heat_pump_df = Table(<<[Year |-> 2021, Locations |-> 2]>>)
    /\ Frames
    /\ NoPages
    /\ lv = LvIdle
    /\ home = HomeIdle

NextVehicles ==
    \/ LV_Load \/ LV_FactorRow \/ LV_Apply
    \/ FF_Load \/ FF_Baseline \/ FF_Row2019 \/ FF_Row2020 \/ FF_RowTracked \/ FF_Return
    \/ H_Load \/ H_Quarters \/ H_Adjust \/ H_VehiclesYearly

SpecVehicles == InitVehicles /\ [][NextVehicles]_vars

\* the Annual Savings page on any solar table
InitSavings ==
    /\ solar_csv \in SolarTables
    /\ vehicles_csv \in {None, Table(SubTable(VehicleRows, {2, 3, 8})),
                          Table(SubTable(VehicleRows, {1, 2, 6}))}
    /\ vehicle_factors_df = Table(SubTable(FactorRows, {3, 4}))
    /\ assessors_df = Table(SubTable(Properties, {1, 2, 3, 4, 6}))
    /\ heat_pump_df \in {TrackerExample,
                          Table(<<[Year |-> 2021, Locations |-> 2],
                                  [Year |-> 2023, Locations |-> 3]>>)}
    /\ energy_df = None
    /\ mass_save_data = None
    /\ energy_sheet = None
    /\ me = MeIdle
    /\ sv = SvIdle
    /\ vp = VpIdle
    /\ rp = RpIdle
    /\ Frames
    /\ lv = LvIdle
    /\ home = HomeIdle

NextSavings ==
    \/ LV_Load \/ LV_FactorRow \/ LV_Apply
    \/ FF_Load \/ FF_Baseline \/ FF_Row2019 \/ FF_Row2020 \/ FF_RowTracked \/ FF_Return
    \/ SV_Load \/ SV_Solar \/ SV_HeatPump \/ SV_Vehicles \/ SV_Combined \/ SV_Summary

SpecSavings == InitSavings /\ [][NextSavings]_vars

\* the Home page, run twice, on any municipal energy table
InitRollup ==
    /\ vehicles_csv \in RollupVehicleTables
    /\ vehicle_factors_df = Table(SubTable(FactorRows, {1, 2, 4}))
    /\ energy_df \in BillingTables
    /\ mass_save_data \in UsageTables
    /\ assessors_df = Table(SubTable(Properties, {1, 2, 3, 4, 6}))
    /\ heat_pump_df = Table(<<[Year |-> 2021, Locations |-> 2],
                              [Year |-> 2023, Locations |-> 3]>>)
    /\ Frames
    /\ NoPages
    /\ lv = LvIdle
    /\ home = HomeIdle

NextRollup ==
    \/ LV_Load \/ LV_FactorRow \/ LV_Apply
    \/ FF_Load \/ FF_Baseline \/ FF_Row2019 \/ FF_Row2020 \/ FF_RowTracked \/ FF_Return
    \/ H_Load \/ H_Quarters \/ H_Adjust \/ H_VehiclesYearly
    \/ H_Energy \/ H_Sectors \/ H_Merge \/ H_ForwardFill \/ H_Total \/ H_Metrics
    \/ H_Rerun

SpecRollup == InitRollup /\ [][NextRollup]_vars

\* the Municipal Energy page on any sheet
InitMunicipal ==
    /\ energy_sheet \in SheetTables \cup {None}
    /\ me = MeIdle
    /\ solar_csv = Table(<<>>)
    /\ sv = SvIdle
    /\ vp = VpIdle
    /\ rp = RpIdle
    /\ assessors_df = None
    /\ heat_pump_df = None
    /\ Frames
    /\ NoVehicles

NextMunicipal ==
    ME_Load \/ ME_Recent \/ ME_Metrics \/ ME_Filter \/ ME_Yearly

SpecMunicipal == InitMunicipal /\ [][NextMunicipal]_vars

\* every estimator and both pages with each input table present or absent
InitGuards ==
    /\ assessors_df \in {None, Table(SubTable(Properties, {1, 2, 3, 4, 6}))}
    /\ heat_pump_df \in {None, Table(<<[Year |-> 2021, Locations |-> 2],
                                        [Year |-> 2023, Locations |-> 3]>>)}
    /\ vehicles_csv \in {None, Table(SubTable(RollupVehicleRows, {2, 3, 4}))}
    /\ vehicle_factors_df = Table(SubTable(FactorRows, {1, 2, 4}))
    /\ energy_df \in {None, Table(SubTable(BillingRows, {1, 2}))}
    /\ mass_save_data \in {None, Table(SubTable(UsageRows, {1, 2, 3, 4, 7}))}
    /\ solar_csv = Table(SubTable(SolarRows, {2, 4}))
    /\ sv = SvIdle
    /\ vp = VpIdle
    /\ rp = RpIdle
    /\ energy_sheet = None
    /\ me = MeIdle
    /\ Frames
    /\ lv = LvIdle
    /\ home = HomeIdle

NextGuards ==
    \/ PD_Load \/ PD_Baseline \/ PD_Row2019 \/ PD_Row2020 \/ PD_RowTracked \/ PD_Return
    \/ FF_Load \/ FF_Baseline \/ FF_Row2019 \/ FF_Row2020 \/ FF_RowTracked \/ FF_Return
    \/ LV_Load \/ LV_FactorRow \/ LV_Apply
    \/ H_Load \/ H_Quarters \/ H_Adjust \/ H_VehiclesYearly
    \/ H_Energy \/ H_Sectors \/ H_Merge \/ H_ForwardFill \/ H_Total \/ H_Metrics
    \/ SV_Load \/ SV_Solar \/ SV_HeatPump \/ SV_Vehicles \/ SV_Combined \/ SV_Summary

SpecGuards == InitGuards /\ [][NextGuards]_vars

\* the pages that use the vehicle table: the Vehicles page and the Annual
\* Savings page before, between and after two runs of the Home rollup
InitReport ==
    /\ vehicles_csv \in {Table(SubTable(VehicleRows, {1, 2, 3})),
                          Table(SubTable(VehicleRows, {2, 3, 8})),
                          Table(SubTable(VehicleRows, {1, 6, 8}))}
    /\ vehicle_factors_df = Table(SubTable(FactorRows, {1, 3, 4}))
    /\ energy_df = Table(SubTable(BillingRows, {1, 2}))
    /\ mass_save_data = Table(SubTable(UsageRows, {1, 2, 3, 4, 7}))
    /\ assessors_df = Table(SubTable(Properties, {1, 2, 3, 4, 6}))
    /\ heat_pump_df = Table(<<[Year |-> 2021, Locations |-> 2],
                              [Year |-> 2023, Locations |-> 3]>>)
    /\ solar_csv = Table(SubTable(SolarRows, {2, 4}))
    /\ sv = SvIdle
    /\ vp = VpIdle
    /\ rp = RpIdle
    /\ energy_sheet = None
    /\ me = MeIdle
    /\ Frames
    /\ lv = LvIdle
    /\ home = HomeIdle

NextReport ==
    \/ LV_Load \/ LV_FactorRow \/ LV_Apply
    \/ FF_Load \/ FF_Baseline \/ FF_Row2019 \/ FF_Row2020 \/ FF_RowTracked \/ FF_Return
    \/ H_Load \/ H_Quarters \/ H_Adjust \/ H_VehiclesYearly
    \/ H_Energy \/ H_Sectors \/ H_Merge \/ H_ForwardFill \/ H_Total \/ H_Metrics
    \/ H_Rerun
    \/ V_Load \/ V_Charts
    \/ SV_Load \/ SV_Solar \/ SV_HeatPump \/ SV_Vehicles \/ SV_Combined \/ SV_Summary

SpecReport == InitReport /\ [][NextReport]_vars

Init == InitBuildings
Next == NextBuildings
Spec == SpecBuildings

(***************************************************************************)
(* Properties of the displacement tracker (checked under SpecTracker)      *)
(***************************************************************************)
PdReturned == pd.pc = "done" /\ pd.ret = "tuple"
FfReturned == ff.pc = "done" /\ ff.ret = "tuple"

\* the rows of the tracked years: those after the 2019 and 2020 rows
TrackedRows(results) == SubSeq(results, 3, Len(results))

\* C1: in every row of the table calculate_propane_displacement returns,
\* remaining + saved propane equals the baseline of the metadata, in mtCO2e
\* and in gallons.
C1_Conservation ==
    PdReturned =>
        \A i \in 1..Len(pd.results) :
            /\ QEq(QAdd(pd.results[i].Remaining_Propane_mtCO2e,
                        pd.results[i].Propane_Saved_mtCO2e),
                   pd.baseline_propane_mtco2e)
            /\ QEq(QAdd(pd.results[i].Remaining_Propane_Gal,
                        pd.results[i].Propane_Saved_Gal),
                   pd.baseline_propane_gal)

\* a returned table with a row below and a row above the 2019 baseline
C1_Witness ==
    /\ PdReturned
    /\ pd.total_propane_properties >= 2
    /\ \E i \in 1..Len(pd.results) : pd.results[i].Cumulative_Conversions < 0
    /\ \E i \in 1..Len(pd.results) : pd.results[i].Cumulative_Conversions > 0

\* C2 (as claimed): in every row, the 2020 row included, Percent_Reduction is
\* conversions / baseline property count * 100 when conversions > 0 and 0
\* otherwise, so it is never negative.
C2_PercentClamped ==
    \A i \in 1..Len(pd.results) :
        LET row == pd.results[i]
        IN  pd.total_propane_properties > 0 =>
              /\ QLe(QInt(0), row.Percent_Reduction)
              /\ IF row.Cumulative_Conversions > 0
                 THEN QEq(row.Percent_Reduction,
                          Percent(row.Cumulative_Conversions, pd.total_propane_properties))
                 ELSE QEq(row.Percent_Reduction, QInt(0))

\* (b + f) / 2 rounded to the nearest integer, a half rounding up
RoundHalfUpAverage(b, f) == (b + f + 1) \div 2

\* C3 (as claimed): the 2020 heat-pump-location count of both tables is
\* (b + f) / 2 rounded half up, for the baseline count b and the first
\* tracked count f.
C3_RoundsHalfUp ==
    LET b == BaselineHeatPumps(assessors_df.rows)
        f == SortByYear(heat_pump_df.rows)[1].Locations
    IN  /\ Len(pd.results) >= 2 =>
              pd.results[2].Heat_Pump_Locations = RoundHalfUpAverage(b, f)
        /\ Len(ff.results) >= 2 =>
              ff.results[2].heat_pump_locations = RoundHalfUpAverage(b, f)

\* the tracker's location counts do not decrease from year to year
TrackerNonDecreasing ==
    \A i, j \in 1..Len(heat_pump_df.rows) :
        heat_pump_df.rows[i].Year < heat_pump_df.rows[j].Year
            => heat_pump_df.rows[i].Locations <= heat_pump_df.rows[j].Locations

\* C4: Cumulative_Conversions of every row is the row's heat-pump locations
\* minus the 2019 baseline count, and with a non-decreasing tracker it does
\* not decrease from one tracked year to a later one (both tables).
C4_CumulativeConversions ==
    LET b == BaselineHeatPumps(assessors_df.rows)
    IN  /\ \A i \in 1..Len(pd.results) :
              pd.results[i].Cumulative_Conversions =
                  pd.results[i].Heat_Pump_Locations - b
        /\ \A i \in 1..Len(ff.results) :
              ff.results[i].cumulative_conversions =
                  ff.results[i].heat_pump_locations - b
        /\ TrackerNonDecreasing =>
              /\ \A i, j \in 3..Len(pd.results) :
                    pd.results[i].Year < pd.results[j].Year
                        => pd.results[i].Cumulative_Conversions
                              <= pd.results[j].Cumulative_Conversions
              /\ \A i, j \in 3..Len(ff.results) :
                    ff.results[i].year < ff.results[j].year
                        => ff.results[i].cumulative_conversions
                              <= ff.results[j].cumulative_conversions

\* both tables returned for a tracker given out of year order, with a
\* positive baseline and growing counts
C4_Witness ==
    /\ PdReturned /\ FfReturned
    /\ TrackerNonDecreasing
    /\ Len(heat_pump_df.rows) = 2
    /\ heat_pump_df.rows[1].Year > heat_pump_df.rows[2].Year
    /\ heat_pump_df.rows[1].Locations > heat_pump_df.rows[2].Locations
    /\ pd.baseline_heat_pumps_2019 > 0

(***************************************************************************)
(* Properties of the vehicle loader and of the vehicle part of the Home    *)
(* rollup (checked under SpecVehicles)                                     *)
(***************************************************************************)
LvReturned == lv.pc = "done" /\ lv.ret = "vehicles_df"

\* what the claim lets a registration row add to the vehicle total of year y
RECURSIVE ClaimedVehicleTotal(_, _)
ClaimedVehicleTotal(rows, y) ==
    IF rows = <<>> THEN QInt(0)
    ELSE LET r == Head(rows)
             part ==
                 IF r.Quarter.month # 1 \/ r.Quarter.year - 1 # y THEN QInt(0)
                 ELSE IF r.Type = "Battery Electric" THEN QInt(0)
                 ELSE IF r.Type = "Plug-in Hybrid" THEN QDiv(r.tCo2e, QInt(2))
                 ELSE r.tCo2e
         IN  QAdd(part, ClaimedVehicleTotal(Tail(rows), y))

\* vehicles_tco2e of year y in vehicles_yearly, 0 for a year without a row
VehiclesOfYear(y) ==
    IF \E k \in 1..Len(home.vehicles_yearly) : home.vehicles_yearly[k].year = y
    THEN home.vehicles_yearly[CHOOSE k \in 1..Len(home.vehicles_yearly) :
                                 home.vehicles_yearly[k].year = y].vehicles_tco2e
    ELSE QInt(0)

\* C5: the yearly vehicle total of the Home rollup leaves out every Battery
\* Electric row, counts a Plug-in Hybrid row at half its tCo2e and every other
\* type in full.
C5_VehicleAdjustment ==
    home.pc = "energy" =>
        /\ \A j, k \in 1..Len(home.vehicles_yearly) :
              home.vehicles_yearly[j].year = home.vehicles_yearly[k].year => j = k
        /\ \A i \in 1..Len(lv.vehicles_df) :
              \A y \in {lv.vehicles_df[i].Quarter.year - 1, lv.vehicles_df[i].Quarter.year} :
                  QEq(VehiclesOfYear(y), ClaimedVehicleTotal(lv.vehicles_df, y))

\* a year with an emitting Battery Electric row, an emitting Plug-in Hybrid
\* row and a row of another type
C5_Witness ==
    /\ home.pc = "energy"
    /\ \E i, j, k \in 1..Len(lv.vehicles_df) :
          /\ lv.vehicles_df[i].Type = "Battery Electric"
          /\ lv.vehicles_df[j].Type = "Plug-in Hybrid"
          /\ lv.vehicles_df[k].Type = "Diesel"
          /\ \A m \in {i, j, k} :
                /\ lv.vehicles_df[m].Quarter = [year |-> 2020, month |-> 1]
                /\ QGt(lv.vehicles_df[m].tCo2e, QInt(0))

\* gallons * gallon-factor + kWh * 0.000239 of a factor row, as the claim
\* states it
ClaimedPerVehicle(row) ==
    LET gallons == IF row.MPgal # <<>> /\ row.MPgal[1] > 0
                   THEN QDiv(QInt(row.Miles), QInt(row.MPgal[1])) ELSE QInt(0)
        kwh == IF row.MPkwh # <<>> /\ row.MPkwh[1] > 0
               THEN QDiv(QInt(row.Miles), QInt(row.MPkwh[1])) ELSE QInt(0)
        factor == IF row.Type \in {"Diesel", "Motorcycle Gasoline"}
                  THEN QDec(1030, 5) ELSE QDec(882, 5)
    IN  QAdd(QMul(gallons, factor), QMul(kwh, QDec(239, 6)))

\* r is x rounded to 2 decimals: a whole number of hundredths within 0.005
IsRounded2(r, x) ==
    /\ r.den \in {<<1>>, <<10>>, <<100>>}
    /\ QLe(QSub(r, x), QDec(5, 3))
    /\ QLe(QSub(x, r), QDec(5, 3))

\* C6: the per-vehicle tCO2e of every factor row is
\* round(gallons * gallon-factor + kWh * 0.000239, 2) with the guarded
\* divisions and the Diesel / Motorcycle Gasoline factor, and a registration
\* row's tCo2e is that figure times Number.
C6_PerVehicle ==
    LvReturned =>
        /\ \A i \in 1..Len(vehicle_factors_df.rows) :
              LET row == vehicle_factors_df.rows[i]
              IN  row.Type \notin {"", NA} =>
                    /\ row.Type \in DOMAIN lv.tco2e_per_vehicle
                    /\ IsRounded2(lv.tco2e_per_vehicle[row.Type], ClaimedPerVehicle(row))
        /\ \A i \in 1..Len(lv.vehicles_df) :
              LET r == lv.vehicles_df[i]
              IN  r.Type \in DOMAIN lv.tco2e_per_vehicle =>
                    QEq(r.tCo2e, QMul(QInt(r.Number), lv.tco2e_per_vehicle[r.Type]))

\* all factor rows loaded (a zero MPG, both MPG and MPkWh, a motorcycle) and
\* an emitting registration row
C6_Witness ==
    /\ LvReturned
    /\ Len(vehicle_factors_df.rows) = Len(FactorRows)
    /\ \E i \in 1..Len(lv.vehicles_df) :
          lv.vehicles_df[i].Type = "Plug-in Hybrid"
          /\ QGt(lv.vehicles_df[i].tCo2e, QInt(0))

\* the types that have a factor row with a name
KnownTypes ==
    {vehicle_factors_df.rows[i].Type : i \in 1..Len(vehicle_factors_df.rows)}
        \ {"", NA}

\* C7: a registration row whose Type has no (named) factor row gets tCo2e 0
\* and the load does not fail; rows of known types keep Number times their
\* per-vehicle figure.
C7_UnknownTypeZero ==
    /\ lv.pc = "done" /\ ~vehicles_csv.isNone /\ ~vehicle_factors_df.isNone
          => lv.ret = "vehicles_df"
    /\ LvReturned =>
          \A i \in 1..Len(lv.vehicles_df) :
              LET r == lv.vehicles_df[i]
              IN  IF r.Type \in KnownTypes
                  THEN \E k \in 1..Len(vehicle_factors_df.rows) :
                          /\ vehicle_factors_df.rows[k].Type = r.Type
                          /\ QEq(r.tCo2e,
                                 QMul(QInt(r.Number),
                                      PerVehicle(vehicle_factors_df.rows[k])))
                  ELSE QEq(r.tCo2e, QInt(0))

\* blank and missing factor types were skipped, and the table holds a row of
\* a type without factors, a row without a type and an emitting known row
C7_Witness ==
    /\ LvReturned
    /\ \E k \in 1..Len(vehicle_factors_df.rows) : vehicle_factors_df.rows[k].Type = ""
    /\ \E k \in 1..Len(vehicle_factors_df.rows) : vehicle_factors_df.rows[k].Type = NA
    /\ \E i, j, m \in 1..Len(lv.vehicles_df) :
          /\ lv.vehicles_df[i].Type = "Fuel Cell"
          /\ lv.vehicles_df[j].Type = NA
          /\ QGt(lv.vehicles_df[m].tCo2e, QInt(0))

\* the factor file is the single row Diesel, 12000 miles/year, 25 MPG
DieselExample ==
    /\ LvReturned
    /\ vehicle_factors_df.rows = SubTable(FactorRows, {1})
    /\ FactorRows[1] = FactorRow("Diesel", 12000, <<25>>, <<>>)

DieselRowsAre(value) ==
    \A i \in 1..Len(lv.vehicles_df) :
        lv.vehicles_df[i].Type = "Diesel" /\ lv.vehicles_df[i].Number = 10
            => QEq(lv.vehicles_df[i].tCo2e, value)

\* C8 (as claimed): 10 Diesel vehicles at 12000 miles/year and 25 MPG emit
\* 494.4 tCO2e.
C8_Claimed494 == DieselExample => DieselRowsAre(QDec(4944, 1))

\* C8 (amended): 10 Diesel vehicles at 12000 miles/year and 25 MPG emit
\* 49.4 tCO2e: 480 gallons, 4.944 rounded to 4.94 per vehicle, times 10.
C8_Diesel49 == DieselExample => DieselRowsAre(QDec(494, 1))

C8_Witness ==
    /\ DieselExample
    /\ \E i \in 1..Len(lv.vehicles_df) :
          lv.vehicles_df[i].Type = "Diesel" /\ lv.vehicles_df[i].Number = 10

(***************************************************************************)
(* Properties of the building estimator and of the excluded properties     *)
(* (checked under SpecBuildings)                                           *)
(***************************************************************************)
\* the estimator has returned its table and no call is in progress
ReReturned == re.pc = "done" /\ re.ret = "df_calc" /\ active = "none"

\* the heating factor the claim gives a property
ClaimedHeatingFactor(r) ==
    IF r.StateClassDesc \in MOTELS_RESORTS THEN QDec(30, 2)
    ELSE IF r.StateClassDesc \in COMMERCIAL_TYPES THEN QDec(65, 2)
    ELSE QAdd(QMul(QDec(671, 3), QDec(30, 2)), QMul(QDec(329, 3), QDec(100, 2)))

\* sqft * consumption * factor * emission factor
ClaimedEmission(r, consumption, emission) ==
    QMul(QMul(QMul(QInt(r.NetSF[1]), consumption), ClaimedHeatingFactor(r)),
         emission)

\* C9: every kept property gets the heating factor 0.30 (motel/resort),
\* 0.65 (commercial) or 0.671*0.30 + 0.329*1.00 (otherwise), and an mtco2e of
\* sqft*0.40*factor*0.01030 for OIL, sqft*0.39*factor*0.00574 for GAS,
\* sqft*(4.0 or 12.0)*factor*0.000239 for ELECTRIC and exactly 0 for any other
\* or missing fuel code.
C9_ResidentialEmissions ==
    ReReturned =>
        \A i \in 1..Len(re.df_calc) :
            LET r == re.df_calc[i]
            IN  /\ QEq(r.seasonal_factor, ClaimedHeatingFactor(r))
                /\ CASE r.FUEL = "OIL" ->
                          QEq(r.mtco2e, ClaimedEmission(r, QDec(40, 2), QDec(1030, 5)))
                     [] r.FUEL = "GAS" ->
                          QEq(r.mtco2e, ClaimedEmission(r, QDec(39, 2), QDec(574, 5)))
                     [] r.FUEL = "ELECTRIC" ->
                          \/ QEq(r.mtco2e, ClaimedEmission(r, QDec(40, 1), QDec(239, 6)))
                          \/ QEq(r.mtco2e, ClaimedEmission(r, QDec(120, 1), QDec(239, 6)))
                     [] OTHER -> r.mtco2e = QInt(0)

\* a motel, a commercial and a residential property were kept, with an
\* electric property and one of a fuel that has no factor
C9_Witness ==
    /\ ReReturned
    /\ \E i, j, k, m, n \in 1..Len(re.df_calc) :
          /\ re.df_calc[i].is_motel_resort
          /\ re.df_calc[j].is_commercial
          /\ re.df_calc[k].is_residential
          /\ re.df_calc[m].FUEL = "ELECTRIC"
          /\ re.df_calc[n].FUEL \notin {"OIL", "GAS", "ELECTRIC"}

\* a property the claim excludes: null, zero or negative net square footage,
\* or a PropertyType other than 'R'
Excluded(r) ==
    \/ r.NetSF = <<>>
    \/ r.NetSF[1] <= 0
    \/ r.PropertyType # "R"

NotExcluded(r) == ~Excluded(r)

\* the assessor table without its excluded properties
ValidRows == Filter(assessors_df.rows, NotExcluded)

FuelIs(rows, fuel) == {i \in 1..Len(rows) : rows[i].FUEL = fuel}

TrackedPropane(rows) ==
    {i \in 1..Len(rows) :
        /\ rows[i].FUEL = "GAS"
        /\ rows[i].StateClassDesc \notin MOTELS_RESORTS \cup COMMERCIAL_TYPES}

RECURSIVE SumOver(_, _)
SumOver(rows, I) ==
    IF I = {} THEN 0
    ELSE LET i == CHOOSE i \in I : TRUE
         IN  rows[i].NetSF[1] + SumOver(rows, I \ {i})

\* x is a median of the net square footage of rows[i], i in I: as many values
\* at or below it as at or above it, and it is one of them or the mean of the
\* two in the middle
IsMedianOver(x, rows, I) ==
    IF I = {} THEN x = NaN
    ELSE \E lo, hi \in I :
            /\ QEq(QMul(x, QInt(2)), QInt(rows[lo].NetSF[1] + rows[hi].NetSF[1]))
            /\ rows[lo].NetSF[1] <= rows[hi].NetSF[1]
            /\ \A k \in I : rows[k].NetSF[1] <= rows[lo].NetSF[1]
                            \/ rows[k].NetSF[1] >= rows[hi].NetSF[1]
            /\ Cardinality({k \in I : rows[k].NetSF[1] < rows[hi].NetSF[1]}) * 2
                  <= Cardinality(I)
            /\ Cardinality({k \in I : rows[k].NetSF[1] > rows[lo].NetSF[1]}) * 2
                  <= Cardinality(I)

\* between calls, with the locals of a call that got past its None check
PdComputed == active = "none" /\ pd.pc \in {"done", "raised"} /\ pd.ret # "None"
FfComputed == active = "none" /\ ff.pc \in {"done", "raised"} /\ ff.ret # "None"

\* no output row of the estimator is an excluded property and every other
\* property has its row; the sums, counts and medians over net square footage
\* are those of the table without the excluded properties; no call fails
\* because of one
AreaAggregatesIgnoreExcluded ==
    /\ ReReturned =>
          /\ \A i \in 1..Len(re.df_calc) : ~Excluded(re.df_calc[i])
          /\ {re.df_calc[i].id : i \in 1..Len(re.df_calc)}
                = {ValidRows[i].id : i \in 1..Len(ValidRows)}
    /\ PdComputed =>
          /\ pd.total_propane_properties = Cardinality(TrackedPropane(ValidRows))
          /\ IsMedianOver(pd.median_sqft, ValidRows, TrackedPropane(ValidRows))
    /\ FfComputed =>
          /\ ff.oil_properties = Cardinality(FuelIs(ValidRows, "OIL"))
          /\ QEq(ff.oil_emissions_mtco2e,
                 QMul(QInt(SumOver(ValidRows, FuelIs(ValidRows, "OIL"))),
                      QMul(QMul(QDec(40, 2), AvgSeasonalFactor), QDec(1030, 5))))
          /\ ff.total_propane_count = Cardinality(FuelIs(ValidRows, "GAS"))
          /\ QEq(ff.baseline_propane_mtco2e_seasonal,
                 QMul(QInt(SumOver(ValidRows, FuelIs(ValidRows, "GAS"))),
                      QMul(QMul(QDec(39, 2), AvgSeasonalFactor), QDec(574, 5))))
          /\ ff.tracked_propane_count = Cardinality(TrackedPropane(ValidRows))
          /\ IsMedianOver(ff.tracked_propane_median_sqft, ValidRows,
                          TrackedPropane(ValidRows))
    /\ pd.pc = "raised" =>
          heat_pump_df.rows = <<>> \/ TrackedPropane(ValidRows) = {}
    /\ ff.pc = "raised" => heat_pump_df.rows = <<>>

\* the 2019 heat-pump count over the table without the excluded properties
ValidHeatPumps == BaselineHeatPumps(ValidRows)

\* C10 (as claimed): an excluded property appears in no output row and
\* contributes to no sum, count or median of the three functions, the 2019
\* heat-pump count included, and raises no error.
C10_NoContribution ==
    /\ AreaAggregatesIgnoreExcluded
    /\ PdComputed => pd.baseline_heat_pumps_2019 = ValidHeatPumps
    /\ FfComputed => ff.baseline_heat_pumps_2019 = ValidHeatPumps

\* C10 (amended): an excluded property appears in no output row, contributes
\* to no sum, count or median over net square footage and raises no error,
\* but it is counted in the 2019 heat-pump baseline when its HVAC names a
\* heat pump: that count runs over every assessor record.
C10_ExcludedProperties ==
    /\ AreaAggregatesIgnoreExcluded
    /\ PdComputed => pd.baseline_heat_pumps_2019 = BaselineHeatPumps(assessors_df.rows)
    /\ FfComputed => ff.baseline_heat_pumps_2019 = BaselineHeatPumps(assessors_df.rows)

\* all three functions ran on a table with a kept property and excluded
\* properties that name a heat pump
C10_Witness ==
    /\ ReReturned /\ PdReturned /\ FfReturned
    /\ Len(ValidRows) > 0
    /\ \E i, j \in 1..Len(assessors_df.rows) :
          /\ assessors_df.rows[i].PropertyType # "R"
          /\ HasHeatPump(assessors_df.rows[i])
          /\ assessors_df.rows[j].NetSF = <<>>
          /\ HasHeatPump(assessors_df.rows[j])
    /\ pd.baseline_heat_pumps_2019 > ValidHeatPumps

(***************************************************************************)
(* Properties of the fossil-fuel heating series (checked under SpecTracker)*)
(***************************************************************************)
\* C20: in every row returned by calculate_total_fossil_fuel_heating the oil
\* emissions are the same value, propane_mtco2e is the seasonal-adjusted
\* propane baseline minus the row's propane_mtco2e_eliminated, and
\* total_fossil_fuel_mtco2e is oil_mtco2e + propane_mtco2e (as the same
\* number, or NaN on both sides when no propane property is tracked).
C20_OilConstantPropaneDisplaced ==
    FfReturned /\ active = "none" =>
        \A i \in 1..Len(ff.results) :
            LET r == ff.results[i]
            IN  /\ QSame(r.oil_mtco2e, ff.results[1].oil_mtco2e)
                /\ QSame(r.oil_mtco2e, ff.oil_emissions_mtco2e)
                /\ QSame(r.propane_mtco2e,
                       QSub(ff.baseline_propane_mtco2e_seasonal,
                            r.propane_mtco2e_eliminated))
                /\ QSame(r.total_fossil_fuel_mtco2e,
                       QAdd(r.oil_mtco2e, r.propane_mtco2e))

\* a returned series with oil emissions, a row that eliminates propane and a
\* row whose count is below the 2019 baseline
C20_Witness ==
    /\ FfReturned
    /\ QGt(ff.oil_emissions_mtco2e, QInt(0))
    /\ \E i, j \in 1..Len(ff.results) :
          /\ QGt(ff.results[i].propane_mtco2e_eliminated, QInt(0))
          /\ QLt(ff.results[j].propane_mtco2e_eliminated, QInt(0))

(***************************************************************************)
(* Properties of the Annual Savings page (checked under SpecSavings)       *)
(***************************************************************************)
\* the page got past line 54 and no call is in progress
SvSolarComputed ==
    /\ active = "none"
    /\ \/ sv.pc = "done"
       \/ sv.pc = "raised" /\ sv.ret = "IndexError at line 121"

\* the solar table: the rows of the municipality with a positive capacity
TruroSolar ==
    SelectSeq(solar_csv.rows,
              LAMBDA r : r.City = "Truro" /\ QGt(r.Capacity, QInt(0)))

CapacityOf(year) ==
    (CHOOSE r \in {TruroSolar[i] : i \in 1..Len(TruroSolar)} : r.Year = year).Capacity

\* (cumulative capacity of the year - cumulative capacity of 2019) * 1.2 * 0.239
ClaimedSolarSavings(year) ==
    QMul(QMul(QSub(CapacityOf(year), CapacityOf(2019)), QDec(12, 1)), QDec(239, 3))

\* C11: every year >= 2019 of the solar table has one row of solar savings,
\* (capacity of the year - capacity of 2019) * 1.2 * 0.239; the 2019 row is 0,
\* no year before 2019 has a row, and 100 kW in 2019 with 400 kW in 2023
\* gives 300 kW added, 360 MWh and 86.04 mtCO2e for 2023.
C11_SolarSavings ==
    SvSolarComputed =>
        /\ YearsOf(sv.solar_savings)
              = {TruroSolar[i].Year : i \in 1..Len(TruroSolar)} \ (0..2018)
        /\ \A i, j \in 1..Len(sv.solar_savings) :
              sv.solar_savings[i].year = sv.solar_savings[j].year => i = j
        /\ \A i \in 1..Len(sv.solar_savings) :
              LET r == sv.solar_savings[i]
              IN  /\ QEq(r.solar_savings_mtco2e, ClaimedSolarSavings(r.year))
                  /\ r.year = 2019 => QEq(r.solar_savings_mtco2e, QInt(0))
                  /\ (r.year = 2023 /\ QEq(CapacityOf(2019), QInt(100))
                        /\ QEq(CapacityOf(2023), QInt(400))) =>
                        /\ QEq(r.capacity_kw_dc, QInt(300))
                        /\ QEq(r.annual_mwh, QInt(360))
                        /\ QEq(r.solar_savings_mtco2e, QDec(8604, 2))

\* the page ran on a table with capacity from before 2019, 100 kW in 2019 and
\* 400 kW in 2023
C11_Witness ==
    /\ SvSolarComputed
    /\ \E i, j, k \in 1..Len(TruroSolar) :
          /\ TruroSolar[i].Year = 2018
          /\ TruroSolar[j].Year = 2019 /\ QEq(TruroSolar[j].Capacity, QInt(100))
          /\ TruroSolar[k].Year = 2023 /\ QEq(TruroSolar[k].Capacity, QInt(400))
    /\ \E i \in 1..Len(sv.solar_savings) : sv.solar_savings[i].year = 2023

\* the combined savings table was built and no call is in progress
SvCombined == SvSolarComputed

\* propane_mtco2e_eliminated of the year in the fossil-fuel series, 0 without a row
ClaimedHeatPumpSavings(year) ==
    IF \E i \in 1..Len(ff.results) : ff.results[i].year = year
    THEN ff.results[CHOOSE i \in 1..Len(ff.results) :
                       ff.results[i].year = year].propane_mtco2e_eliminated
    ELSE QInt(0)

\* the vehicles of one type registered in the January after the year
RECURSIVE ClaimedCount(_, _, _)
ClaimedCount(rows, type, year) ==
    IF rows = <<>> THEN 0
    ELSE (IF /\ Head(rows).Type = type
             /\ Head(rows).Quarter.month = 1
             /\ Head(rows).Quarter.year - 1 = year
          THEN Head(rows).Number ELSE 0)
         + ClaimedCount(Tail(rows), type, year)

ClaimedSolarOrZero(year) ==
    IF \E i \in 1..Len(TruroSolar) : TruroSolar[i].Year = year
    THEN ClaimedSolarSavings(year)
    ELSE QInt(0)

ClaimedTotalSavings(year) ==
    QAdd(QAdd(ClaimedHeatPumpSavings(year),
              QAdd(QMul(QInt(ClaimedCount(lv.vehicles_df, "Battery Electric", year)),
                        QDec(344, 2)),
                   QMul(QInt(ClaimedCount(lv.vehicles_df, "Plug-in Hybrid", year)),
                        QDec(172, 2)))),
         ClaimedSolarOrZero(year))

\* C12: every row of the combined savings table has total_annual_savings =
\* propane_mtco2e_eliminated(year) + BEV_count(year) * 3.44
\* + PHEV_count(year) * 1.72 + solar savings(year), each taken from its own
\* source and 0 for a technology without a row of that year.
C12_TotalAnnualSavings ==
    SvCombined =>
        \A i \in 1..Len(sv.combined_savings) :
            LET r == sv.combined_savings[i]
            IN  /\ QEq(r.total_annual_savings, ClaimedTotalSavings(r.year))
                /\ \A j \in 1..Len(sv.combined_savings) :
                      sv.combined_savings[j].year = r.year => j = i

\* a table with a year that only the solar track has, a year that only the
\* heat-pump track has and a year with vehicles of both kinds
C12_Witness ==
    /\ SvCombined
    /\ \E i, j, k \in 1..Len(sv.combined_savings) :
          LET a == sv.combined_savings[i]
              b == sv.combined_savings[j]
              c == sv.combined_savings[k]
          IN  /\ QGt(a.solar_savings_mtco2e, QInt(0))
              /\ QEq(a.propane_mtco2e_eliminated, QInt(0))
              /\ QGt(b.propane_mtco2e_eliminated, QInt(0))
              /\ QEq(b.solar_savings_mtco2e, QInt(0))
              /\ QGt(c.bev_count, QInt(0))
              /\ QGt(c.phev_count, QInt(0))

(***************************************************************************)
(* Properties of the sector rollup of the Home page (checked under         *)
(* SpecRollup)                                                             *)
(***************************************************************************)
\* a run of the page built the rollup table and no call is in progress
HomeRolledUp ==
    /\ active = "none"
    /\ home.pc \in {"done", "raised"}
    /\ home.ret \in {"page", "IndexError at line 134", "IndexError at line 135"}

RollupYears == YearsOf(home.combined_df)

RollupRow(y) == OfYear(home.combined_df, y)[1]

\* the years of the per-source yearly series
SourceYears ==
    YearsOf(home.vehicles_yearly) \cup YearsOf(home.energy_yearly)
        \cup YearsOf(home.fossil_fuel_yearly)
        \cup YearsOf(home.residential_electric_yearly)
        \cup YearsOf(home.commercial_electric_yearly)

\* C13 (as claimed): every year >= 2019 that one of the per-source yearly
\* series has (vehicles, municipal energy, residential fossil heat,
\* residential electricity, commercial electricity) is a row of the rollup.
C13_OuterJoin ==
    HomeRolledUp => \A y \in SourceYears : y >= 2019 => y \in RollupYears

\* C14 (as claimed): every row of the final rollup has 2019 <= year < 2025.
C14_YearWindow ==
    HomeRolledUp =>
        \A i \in 1..Len(home.combined_df) :
            2019 <= home.combined_df[i].year /\ home.combined_df[i].year < 2025

\* the value a yearly series has for a year, 0 without a row or a number
SourceValue(series, col, y) ==
    IF y \in YearsOf(series) /\ ~OfYear(series, y)[1][col].nan
    THEN OfYear(series, y)[1][col]
    ELSE QInt(0)

\* the 2024 row has the vehicle and municipal values of its own sources
KeepsOwn2024(r) ==
    /\ QEq(r.vehicles_tco2e, SourceValue(home.vehicles_yearly, "vehicles_tco2e", 2024))
    /\ QEq(r.municipal_buildings_mtco2e,
           SourceValue(home.energy_yearly, "municipal_buildings_mtco2e", 2024))
    /\ QEq(r.electric_mtco2e,
           SourceValue(home.energy_electric, "electric_mtco2e", 2024))
    /\ QEq(r.other_fuels_mtco2e,
           SourceValue(home.energy_other, "other_fuels_mtco2e", 2024))

\* C15: when the rollup has a 2023 row it has exactly one 2024 row, whose
\* residential fossil-fuel, residential electricity and commercial
\* electricity values are those of the 2023 row and whose vehicle and
\* municipal values are its own (0 when no source has 2024); without a 2023
\* row a 2024 row keeps the values of its own sources in every column.
C15_ForwardFill ==
    HomeRolledUp =>
        IF 2023 \in RollupYears
        THEN /\ Len(OfYear(home.combined_df, 2024)) = 1
             /\ Len(OfYear(home.combined_df, 2023)) = 1
             /\ QEq(RollupRow(2024).residential_fossil_fuel_mtco2e,
                    RollupRow(2023).residential_fossil_fuel_mtco2e)
             /\ QEq(RollupRow(2024).residential_electric_mtco2e,
                    RollupRow(2023).residential_electric_mtco2e)
             /\ QEq(RollupRow(2024).commercial_electric_mtco2e,
                    RollupRow(2023).commercial_electric_mtco2e)
             /\ KeepsOwn2024(RollupRow(2024))
             /\ (2024 \notin YearsOf(home.vehicles_yearly) \cup YearsOf(home.energy_yearly)
                   => /\ QEq(RollupRow(2024).vehicles_tco2e, QInt(0))
                      /\ QEq(RollupRow(2024).municipal_buildings_mtco2e, QInt(0))
                      /\ QEq(RollupRow(2024).electric_mtco2e, QInt(0))
                      /\ QEq(RollupRow(2024).other_fuels_mtco2e, QInt(0)))
        ELSE \A i \in 1..Len(home.combined_df) :
                LET r == home.combined_df[i]
                IN  r.year = 2024 =>
                       /\ KeepsOwn2024(r)
                       /\ QEq(r.residential_fossil_fuel_mtco2e,
                              SourceValue(home.fossil_fuel_yearly,
                                          "residential_fossil_fuel_mtco2e", 2024))
                       /\ QEq(r.residential_electric_mtco2e,
                              SourceValue(home.residential_electric_yearly,
                                          "residential_electric_mtco2e", 2024))
                       /\ QEq(r.commercial_electric_mtco2e,
                              SourceValue(home.commercial_electric_yearly,
                                          "commercial_electric_mtco2e", 2024))

\* a rollup whose 2024 row existed before the forward-fill: it has vehicle
\* emissions of its own, takes the residential electricity of 2023 and loses
\* the commercial electricity its own source had for 2024
C15_Witness ==
    /\ HomeRolledUp
    /\ 2023 \in RollupYears
    /\ 2024 \in RollupYears
    /\ QGt(RollupRow(2024).vehicles_tco2e, QInt(0))
    /\ ~QEq(RollupRow(2024).vehicles_tco2e, RollupRow(2023).vehicles_tco2e)
    /\ QGt(RollupRow(2024).residential_electric_mtco2e, QInt(0))
    /\ QGt(RollupRow(2024).residential_fossil_fuel_mtco2e, QInt(0))
    /\ QGt(SourceValue(home.commercial_electric_yearly,
                       "commercial_electric_mtco2e", 2024), QInt(0))

\* C16: in every row of the rollup total_tco2e is vehicles + municipal
\* electric + municipal other fuels + residential fossil-fuel heating +
\* residential electricity + commercial electricity, and
\* municipal_buildings_mtco2e is electric_mtco2e + other_fuels_mtco2e.
C16_TotalCountsOnce ==
    HomeRolledUp =>
        \A i \in 1..Len(home.combined_df) :
            LET r == home.combined_df[i]
            IN  /\ QEq(r.municipal_buildings_mtco2e,
                       QAdd(r.electric_mtco2e, r.other_fuels_mtco2e))
                /\ QEq(r.total_tco2e,
                       QAdd(r.vehicles_tco2e,
                            QAdd(r.electric_mtco2e,
                                 QAdd(r.other_fuels_mtco2e,
                                      QAdd(r.residential_fossil_fuel_mtco2e,
                                           QAdd(r.residential_electric_mtco2e,
                                                r.commercial_electric_mtco2e))))))

\* a row with a value in each of the six categories
C16_Witness ==
    /\ HomeRolledUp
    /\ \E i \in 1..Len(home.combined_df) :
          LET r == home.combined_df[i]
          IN  /\ QGt(r.vehicles_tco2e, QInt(0))
              /\ QGt(r.electric_mtco2e, QInt(0))
              /\ QGt(r.other_fuels_mtco2e, QInt(0))
              /\ QGt(r.residential_fossil_fuel_mtco2e, QInt(0))
              /\ QGt(r.residential_electric_mtco2e, QInt(0))
              /\ QGt(r.commercial_electric_mtco2e, QInt(0))

InAnalysisWindow(y) == 2009 <= y /\ y < 2025

\* C19 (as claimed): the most recent and the previous fiscal year of the
\* Municipal Energy page are fiscal years from 2009 to 2024, and every yearly
\* mtco2e, mmbtu and cost sum is the sum of a fiscal year from 2009 to 2024,
\* so that no record of a fiscal year >= 2025 or < 2009 contributes.
C19_AnalysisWindow ==
    (me.pc = "done" /\ me.ret = "page") =>
        /\ InAnalysisWindow(me.most_recent_year[1])
        /\ InAnalysisWindow(me.previous_year[1])
        /\ \A y \in YearsOf(me.yearly_emissions) \cup YearsOf(me.yearly_energy)
                       \cup YearsOf(me.yearly_cost) : InAnalysisWindow(y)

(***************************************************************************)
(* Absent input tables (checked under SpecGuards)                          *)
(***************************************************************************)
BuildingTableAbsent == assessors_df.isNone \/ heat_pump_df.isNone

VehicleTableAbsent == vehicles_csv.isNone \/ vehicle_factors_df.isNone

\* the page built no table: apart from its position the frame is as it began
HomeBuiltNothing == [home EXCEPT !.pc = "idle", !.ret = "none"] = HomeIdle
SavingsBuiltNothing == [sv EXCEPT !.pc = "idle", !.ret = "none"] = SvIdle

\* C17: with the assessor table or the heat-pump table absent,
\* calculate_propane_displacement and calculate_total_fossil_fuel_heating
\* return None and compute nothing; with one of its inputs absent the Home
\* page shows its error and builds no table of the rollup, and so does the
\* Annual Savings page; a table of either page exists only when every input
\* of the page is present.
C17_RefusesWithoutInputs ==
    /\ (BuildingTableAbsent /\ pd.pc # "idle")
          => pd = [PdIdle EXCEPT !.pc = "done", !.ret = "None"]
    /\ (BuildingTableAbsent /\ ff.pc # "idle")
          => ff = [FfIdle EXCEPT !.pc = "done", !.ret = "None"]
    /\ (VehicleTableAbsent \/ energy_df.isNone \/ mass_save_data.isNone
            \/ BuildingTableAbsent)
          => /\ HomeBuiltNothing
             /\ home.pc \in {"idle", "error"}
    /\ (VehicleTableAbsent \/ BuildingTableAbsent)
          => /\ SavingsBuiltNothing
             /\ sv.pc \in {"idle", "error"}
    /\ ~HomeBuiltNothing
          => ~(VehicleTableAbsent \/ energy_df.isNone \/ mass_save_data.isNone
                 \/ BuildingTableAbsent)
    /\ ~SavingsBuiltNothing => ~(VehicleTableAbsent \/ BuildingTableAbsent)

\* the assessor table is absent and everything was run: both estimators
\* returned None and both pages showed their error without building a table
C17_Witness ==
    /\ assessors_df.isNone
    /\ ~heat_pump_df.isNone /\ ~VehicleTableAbsent
    /\ ~energy_df.isNone /\ ~mass_save_data.isNone
    /\ pd.pc = "done" /\ pd.ret = "None"
    /\ ff.pc = "done" /\ ff.ret = "None"
    /\ home.pc = "error" /\ HomeBuiltNothing
    /\ sv.pc = "error" /\ SavingsBuiltNothing

(***************************************************************************)
(* Further properties of the building estimators                           *)
(***************************************************************************)
\* calculate_propane_displacement got past its loads and its first tracker row
PdEnded ==
    /\ active = "none"
    /\ pd.pc \in {"done", "raised"}
    /\ pd.ret \in {"tuple", "ZeroDivisionError"}

\* C21 (as claimed): with no tracked residential propane property (count 0)
\* calculate_propane_displacement returns its table, and the percent
\* reduction of every row, the 2020 row included, is 0.
C21_NoZeroDivision ==
    (PdEnded /\ pd.total_propane_properties = 0) =>
        /\ pd.ret = "tuple"
        /\ \A i \in 1..Len(pd.results) : QEq(pd.results[i].Percent_Reduction, QInt(0))

\* C22 (as claimed): an ELECTRIC property returned by
\* calculate_residential_emissions has the 4.0 kWh/sqft benchmark when its
\* HVAC contains "HEAT PUMP" (the test that counts the baseline heat pumps)
\* and the 12.0 benchmark when it does not.
C22_HeatPumpSubstring ==
    ReReturned =>
        \A i \in 1..Len(re.df_calc) :
            LET r == re.df_calc[i]
            IN  r.FUEL = "ELECTRIC" =>
                   QEq(r.mtco2e,
                       ClaimedEmission(r, IF HasHeatPump(r) THEN QDec(40, 1)
                                          ELSE QDec(120, 1),
                                       QDec(239, 6)))

(***************************************************************************)
(* Further properties of the Home rollup                                   *)
(***************************************************************************)
\* the 2024 row has the value of the 2024 row of a series that has one
KeepsProvided2024(series, col) ==
    2024 \in YearsOf(series) =>
        QEq(RollupRow(2024)[col], SourceValue(series, col, 2024))

\* C23 (as claimed): a 2024 value that a source provides for residential
\* fossil-fuel heating, residential electricity or commercial electricity is
\* the value of the 2024 row of the rollup; the 2023 value is copied only
\* where the source has no 2024 value.
C23_FillOnlyMissing ==
    (HomeRolledUp /\ 2024 \in RollupYears) =>
        /\ KeepsProvided2024(home.fossil_fuel_yearly, "residential_fossil_fuel_mtco2e")
        /\ KeepsProvided2024(home.residential_electric_yearly,
                             "residential_electric_mtco2e")
        /\ KeepsProvided2024(home.commercial_electric_yearly,
                             "commercial_electric_mtco2e")

(***************************************************************************)
(* The vehicle table after the rollup (checked under SpecReport)           *)
(***************************************************************************)
\* the tCo2e that the row of load_vehicle_data's table with this quarter and
\* type had when the first rollup loaded it
LoadedTCo2e(quarter, type) ==
    home.first_loaded[CHOOSE i \in 1..Len(home.first_loaded) :
                         /\ home.first_loaded[i].Quarter = quarter
                         /\ home.first_loaded[i].Type = type].tCo2e

\* C24: once the Home rollup has loaded the vehicle table, every row of the
\* table of load_vehicle_data keeps its tCo2e; the emissions pivot of the
\* Vehicles page shows that full tCo2e for every selected row, Battery
\* Electric and Plug-in Hybrid included; and in a second run of the rollup a
\* Plug-in Hybrid row is again half of the full tCo2e, not a quarter.
C24_AdjustmentOnCopy ==
    home.first_loaded # <<>> =>
        /\ Len(lv.vehicles_df) = Len(home.first_loaded)
        /\ \A i \in 1..Len(lv.vehicles_df) :
              /\ lv.vehicles_df[i].Type = home.first_loaded[i].Type
              /\ lv.vehicles_df[i].tCo2e = home.first_loaded[i].tCo2e
        /\ (vp.pc = "done" /\ vp.ret = "page") =>
              \A i \in 1..Len(vp.pivot_emissions_df) :
                  LET c == vp.pivot_emissions_df[i]
                  IN  c.value = LoadedTCo2e(c.Quarter_Date, c.Type)
        /\ (home.run = 2 /\ home.pc \in {"yearly", "energy", "done", "raised"}) =>
              \A i \in 1..Len(home.vehicles_q1_adjusted) :
                  LET r == home.vehicles_q1_adjusted[i]
                  IN  r.Type = "Plug-in Hybrid" =>
                         QEq(r.tCo2e, QMul(LoadedTCo2e(r.Quarter, r.Type), QDec(5, 1)))

\* the Vehicles page was loaded after two runs of the rollup and shows a
\* Battery Electric and a Plug-in Hybrid cell with emissions
C24_Witness ==
    /\ home.run = 2
    /\ HomeRolledUp
    /\ vp.pc = "done" /\ vp.ret = "page"
    /\ vp.rollups_before = 2
    /\ \E i, j \in 1..Len(vp.pivot_emissions_df) :
          /\ vp.pivot_emissions_df[i].Type = "Battery Electric"
          /\ QGt(vp.pivot_emissions_df[i].value, QInt(0))
          /\ vp.pivot_emissions_df[j].Type = "Plug-in Hybrid"
          /\ vp.pivot_emissions_df[j].Quarter_Date.month = 1
          /\ QGt(vp.pivot_emissions_df[j].value, QInt(0))

\* the rows of the table of load_vehicle_data
LoadedVehicles == lv.vehicles_df

\* the years the January rows of the given types stand for
JanuaryYears(types) ==
    {LoadedVehicles[i].Quarter.year - 1 :
        i \in {j \in 1..Len(LoadedVehicles) :
                  /\ LoadedVehicles[j].Quarter.month = 1
                  /\ LoadedVehicles[j].Type \in types}}

VehicleTypes == {LoadedVehicles[i].Type : i \in 1..Len(LoadedVehicles)}

\* the count column of the Annual Savings table for a year, 0 without a row
SavingsCount(col, y) ==
    IF y \in YearsOf(sv.ev_savings) THEN OfYear(sv.ev_savings, y)[1][col] ELSE QInt(0)

\* C25: the yearly vehicle total of the Home page and the yearly Battery
\* Electric and Plug-in Hybrid counts of the Annual Savings page are made of
\* the January rows only, each counted for the year before its quarter date:
\* a year has a figure only if a January row stands for it, and the figure of
\* every year, the rows' own years included, is the sum over the January rows
\* of the following year.
C25_JanuaryForPreviousYear ==
    /\ home.pc \in {"energy", "done"} =>
          /\ YearsOf(home.vehicles_yearly)
                = JanuaryYears(VehicleTypes \ {"Battery Electric"})
          /\ \A i \in 1..Len(LoadedVehicles) :
                \A y \in {LoadedVehicles[i].Quarter.year - 1,
                          LoadedVehicles[i].Quarter.year} :
                    QEq(VehiclesOfYear(y), ClaimedVehicleTotal(LoadedVehicles, y))
    /\ (active = "none" /\ sv.pc = "done") =>
          /\ YearsOf(sv.ev_savings)
                = JanuaryYears({"Battery Electric", "Plug-in Hybrid"}) \ (0..2018)
          /\ \A i \in 1..Len(LoadedVehicles) :
                \A y \in {LoadedVehicles[i].Quarter.year - 1,
                          LoadedVehicles[i].Quarter.year} \ (0..2018) :
                    /\ QEq(SavingsCount("bev_count", y),
                           QInt(ClaimedCount(LoadedVehicles, "Battery Electric", y)))
                    /\ QEq(SavingsCount("phev_count", y),
                           QInt(ClaimedCount(LoadedVehicles, "Plug-in Hybrid", y)))

\* both pages ran on a table with a January row, an April row of the same
\* year and a Plug-in Hybrid January row
C25_Witness ==
    /\ home.pc = "done"
    /\ sv.pc = "done"
    /\ active = "none"
    /\ \E i, j, k \in 1..Len(LoadedVehicles) :
          /\ LoadedVehicles[i].Quarter.month = 1
          /\ LoadedVehicles[j].Quarter.month = 4
          /\ LoadedVehicles[j].Quarter.year = LoadedVehicles[i].Quarter.year
          /\ QGt(LoadedVehicles[j].tCo2e, QInt(0))
          /\ LoadedVehicles[k].Type = "Plug-in Hybrid"
          /\ LoadedVehicles[k].Quarter.month = 1
    /\ \E y \in YearsOf(sv.ev_savings) : QGt(SavingsCount("phev_count", y), QInt(0))

\* the billing records of the fiscal years before 2025
BillingBefore2025 == SelectSeq(energy_df.rows, LAMBDA r : r.fiscal_year < 2025)

\* the mtco2e of the records of a fiscal year whose account_fuel is in fuels
ClaimedBilling(rows, y, fuels) ==
    SumColumn(SelectSeq(rows, LAMBDA r : r.fiscal_year = y /\ r.account_fuel \in fuels),
              "mtco2e")

BillingFuels == {energy_df.rows[i].account_fuel : i \in 1..Len(energy_df.rows)}

\* the fiscal years before 2025 with a record whose account_fuel is in fuels
BillingYears(fuels) ==
    {BillingBefore2025[i].fiscal_year :
        i \in {j \in 1..Len(BillingBefore2025) :
                  BillingBefore2025[j].account_fuel \in fuels}}

\* the value of a yearly series for a year, 0 without a row
SeriesValue(series, col, y) ==
    IF y \in YearsOf(series) THEN OfYear(series, y)[1][col] ELSE QInt(0)

\* C26: the records of the fiscal years before 2025 are split in two groups
\* that share no record and leave none out, a record without account_fuel
\* being in the other-fuel group: for every fiscal year the electric series
\* is the sum of the Electric records, the other-fuel series the sum of all
\* other records, the two add up to the municipal series, a series has a row
\* for a year only if its group has a record of it, and in the rollup a year
\* whose records are all in one group has 0 in the column of the other.
C26_SplitIsPartition ==
    HomeRolledUp =>
        /\ \A y \in BillingYears(BillingFuels) \cup RollupYears :
              /\ QEq(SeriesValue(home.energy_electric, "electric_mtco2e", y),
                     ClaimedBilling(BillingBefore2025, y, {"Electric"}))
              /\ QEq(SeriesValue(home.energy_other, "other_fuels_mtco2e", y),
                     ClaimedBilling(BillingBefore2025, y, BillingFuels \ {"Electric"}))
              /\ QEq(QAdd(SeriesValue(home.energy_electric, "electric_mtco2e", y),
                          SeriesValue(home.energy_other, "other_fuels_mtco2e", y)),
                     SeriesValue(home.energy_yearly, "municipal_buildings_mtco2e", y))
        /\ YearsOf(home.energy_electric) = BillingYears({"Electric"})
        /\ YearsOf(home.energy_other) = BillingYears(BillingFuels \ {"Electric"})
        /\ \A y \in RollupYears :
                  /\ y \notin YearsOf(home.energy_electric)
                        => QEq(RollupRow(y).electric_mtco2e, QInt(0))
                  /\ y \notin YearsOf(home.energy_other)
                        => QEq(RollupRow(y).other_fuels_mtco2e, QInt(0))
                  /\ QEq(RollupRow(y).electric_mtco2e,
                         ClaimedBilling(BillingBefore2025, y, {"Electric"}))
                  /\ QEq(RollupRow(y).other_fuels_mtco2e,
                         ClaimedBilling(BillingBefore2025, y, BillingFuels \ {"Electric"}))

\* a finished rollup of a table with a record without account_fuel, whose
\* year has no Electric record, and a year with Electric records only
C26_Witness ==
    /\ HomeRolledUp
    /\ \E i \in 1..Len(BillingBefore2025) :
          /\ BillingBefore2025[i].account_fuel = NA
          /\ BillingBefore2025[i].fiscal_year \in RollupYears
          /\ BillingBefore2025[i].fiscal_year \notin YearsOf(home.energy_electric)
          /\ QGt(RollupRow(BillingBefore2025[i].fiscal_year).other_fuels_mtco2e, QInt(0))
    /\ \E y \in RollupYears :
          /\ y \in YearsOf(home.energy_electric)
          /\ y \notin YearsOf(home.energy_other)

BothReturned ==
    /\ active = "none"
    /\ pd.pc = "done" /\ pd.ret = "tuple"
    /\ ff.pc = "done" /\ ff.ret = "tuple"

FirstTracked(rows) ==
    CHOOSE r \in {rows[i] : i \in 1..Len(rows)} :
        \A i \in 1..Len(rows) : r.Year <= rows[i].Year

Between(x, a, b) == (a <= x /\ x <= b) \/ (b <= x /\ x <= a)

\* years is 2019, 2020 and then the tracker years, strictly increasing, and
\* the counts of the second and third row come from the first tracked row
FollowsSequence(years, locations, tracker) ==
    /\ Len(years) = Len(tracker) + 2
    /\ years[1] = 2019
    /\ years[2] = 2020
    /\ \A i, j \in 1..Len(years) : i < j => years[i] < years[j]
    /\ {years[i] : i \in 3..Len(years)} = {tracker[i].Year : i \in 1..Len(tracker)}
    /\ locations[3] = FirstTracked(tracker).Locations
    /\ locations[2] = IntHalf(locations[1] + FirstTracked(tracker).Locations)
    /\ Between(locations[2], locations[1], FirstTracked(tracker).Locations)

PdYears == [i \in 1..Len(pd.results) |-> pd.results[i].Year]
PdLocations == [i \in 1..Len(pd.results) |-> pd.results[i].Heat_Pump_Locations]
FfYears == [i \in 1..Len(ff.results) |-> ff.results[i].year]
FfLocations == [i \in 1..Len(ff.results) |-> ff.results[i].heat_pump_locations]

StartsAfter2020(tracker) == \A i \in 1..Len(tracker) : tracker[i].Year > 2020

\* C28 (as claimed): whatever the row order and the first year of the
\* tracker, the rows of both tables are 2019, 2020 and the tracked years in
\* strictly increasing order, one row per year, the 2020 count being the
\* integer average of the baseline and the count of the smallest tracked
\* year and lying between the two.
C28_AnyFirstYear ==
    /\ (active = "none" /\ pd.pc = "done" /\ pd.ret = "tuple")
          => FollowsSequence(PdYears, PdLocations, heat_pump_df.rows)
    /\ (active = "none" /\ ff.pc = "done" /\ ff.ret = "tuple")
          => FollowsSequence(FfYears, FfLocations, heat_pump_df.rows)

\* C28 (amended): the same, for a tracker whose years are all after 2020.
C28_YearSequence ==
    StartsAfter2020(heat_pump_df.rows) =>
        /\ (active = "none" /\ pd.pc = "done" /\ pd.ret = "tuple")
              => FollowsSequence(PdYears, PdLocations, heat_pump_df.rows)
        /\ (active = "none" /\ ff.pc = "done" /\ ff.ret = "tuple")
              => FollowsSequence(FfYears, FfLocations, heat_pump_df.rows)

\* both tables built from a tracker of 2021 and 2022 that lists 2022 first
\* and whose first count is more than one above the baseline
C28_Witness ==
    /\ BothReturned
    /\ Len(heat_pump_df.rows) = 2
    /\ heat_pump_df.rows[1].Year > heat_pump_df.rows[2].Year
    /\ StartsAfter2020(heat_pump_df.rows)
    /\ heat_pump_df.rows[1].Locations # heat_pump_df.rows[2].Locations
    /\ PdLocations[1] < PdLocations[2]
    /\ PdLocations[2] < PdLocations[3]
    /\ FfYears = <<2019, 2020, 2021, 2022>>

(***************************************************************************)
(* Bounds of the remaining quantities (checked under SpecTracker)          *)
(***************************************************************************)
\* C29 (as claimed): in every row of the displacement table the remaining
\* property count is between 0 and the baseline propane property count and
\* the remaining propane emissions are not negative, and in every row of the
\* fossil-fuel table the propane emissions are not negative, for any tracker
\* counts.
C29_PhysicalBounds ==
    /\ (active = "none" /\ pd.pc = "done" /\ pd.ret = "tuple") =>
          \A i \in 1..Len(pd.results) :
              /\ 0 <= pd.results[i].Remaining_Propane_Properties
              /\ pd.results[i].Remaining_Propane_Properties
                    <= pd.total_propane_properties
              /\ ~QLt(pd.results[i].Remaining_Propane_mtCO2e, QInt(0))
    /\ (active = "none" /\ ff.pc = "done" /\ ff.ret = "tuple") =>
          \A i \in 1..Len(ff.results) :
              ~QLt(ff.results[i].propane_mtco2e, QInt(0))

(***************************************************************************)
(* The three categories of the Residential Energy page (SpecBuildings)     *)
(***************************************************************************)
FlagCount(r) ==
    (IF r.is_motel_resort THEN 1 ELSE 0) + (IF r.is_commercial THEN 1 ELSE 0)
        + (IF r.is_residential THEN 1 ELSE 0)

\* C30: every row of calculate_residential_emissions has exactly one of
\* is_motel_resort, is_commercial and is_residential set, a row without
\* StateClassDesc or of an unlisted class being residential, so the three
\* property counts of the page add up to the number of rows and the three
\* emission sums add up to the total.
C30_OneCategory ==
    /\ ReReturned =>
          \A i \in 1..Len(re.df_calc) :
              /\ FlagCount(re.df_calc[i]) = 1
              /\ re.df_calc[i].StateClassDesc \notin MOTELS_RESORTS \cup COMMERCIAL_TYPES
                    => re.df_calc[i].is_residential
    /\ rp.pc = "done" =>
          /\ rp.properties[1] + rp.properties[2] + rp.properties[3] = rp.properties[4]
          /\ rp.properties[4] = Len(re.df_calc)
          /\ QEq(QAdd(rp.residential_emissions,
                      QAdd(rp.commercial_emissions, rp.motel_emissions)),
                 rp.total_emissions)

\* the page summed a table with a motel, a commercial property and a
\* property without StateClassDesc, each with emissions
C30_Witness ==
    /\ rp.pc = "done"
    /\ rp.properties[1] > 0 /\ rp.properties[2] > 0 /\ rp.properties[3] > 0
    /\ QGt(rp.commercial_emissions, QInt(0))
    /\ QGt(rp.motel_emissions, QInt(0))
    /\ \E i \in 1..Len(re.df_calc) :
          /\ re.df_calc[i].StateClassDesc = NA
          /\ re.df_calc[i].is_residential
          /\ QGt(re.df_calc[i].mtco2e, QInt(0))
====
